---------------------------- MODULE Spec2Model ----------------------------
(***************************************************************************)
(* The mock customer store (lib/mockData.ts) and the two API routes        *)
(* (pages/api/customers.ts, pages/api/customers/[id]/orders.ts) of the     *)
(* dashboard, as a state machine.                                          *)
(*                                                                         *)
(* Strings are sequences of UTF-16 code units, written as tuples of        *)
(* one-character strings; `<` on strings and toLowerCase are computed on   *)
(* the code units.  Values whose JavaScript type is only known at run time *)
(* (a property read through a computed key, a field of a JSON body, a      *)
(* query parameter) are tagged records [type, val].                        *)
(***************************************************************************)
EXTENDS Integers, Sequences, FiniteSets, TLC

VARIABLES
    mockCustomers,  \* mockData.ts: the module-level customer array
    faker,          \* the state of faker's pseudo-random generator
    today,          \* the day `new Date()` reads
    req,            \* the request being answered, NoReq when none is
    res,            \* the response written to it, NoRes before there is one
    filteredCustomers, \* customers.ts: the GET handler's local array at its return
    network,        \* the fetch calls of the browser that have not settled
    customerTable,  \* CustomerTable.tsx: the component's state and refs
    ordersTable     \* OrdersTable.tsx: the component's state, NotMounted when
                    \* no row is expanded

vars == <<mockCustomers, faker, today, req, res, filteredCustomers,
          network, customerTable, ordersTable>>

\* What the browser holds.
browser == <<network, customerTable, ordersTable>>

-----------------------------------------------------------------------------
(* Bounds of the model.                                                    *)

\* generateMockCustomers(96): the number of random customers generated.
NumRandom == 8
\* faker.number.int({ min: 0, max: 10 }): the most orders of one customer.
MaxOrders == 2
\* faker.number.int({ min: 1, max: 5 }): the most items of one order.
MaxItems == 2
\* faker.number.int({ min: 1, max: 365 }): the furthest day back of a date.
MaxDaysAgo == 3
\* The seeds the pseudo-random generator may start from.
NumSeeds == 6

-----------------------------------------------------------------------------
(* JavaScript strings and values.                                          *)

UpperCase == <<"A","B","C","D","E","F","G","H","I","J","K","L","M",
               "N","O","P","Q","R","S","T","U","V","W","X","Y","Z">>
LowerCase == <<"a","b","c","d","e","f","g","h","i","j","k","l","m",
               "n","o","p","q","r","s","t","u","v","w","x","y","z">>
Digits == <<"0","1","2","3","4","5","6","7","8","9">>
HexDigits == Digits \o <<"a","b","c","d","e","f">>

Range(s) == {s[i] : i \in DOMAIN s}
IndexOf(s, c) == CHOOSE i \in DOMAIN s : s[i] = c

Alphabet == Range(UpperCase) \cup Range(LowerCase) \cup Range(Digits)
                \cup {" ", ",", "-", ".", "@", "[", "]", "_"}

\* The UTF-16 code unit of a character.
CodeUnit ==
    [c \in Alphabet |->
        IF c \in Range(UpperCase) THEN 64 + IndexOf(UpperCase, c)
        ELSE IF c \in Range(LowerCase) THEN 96 + IndexOf(LowerCase, c)
        ELSE IF c \in Range(Digits) THEN 47 + IndexOf(Digits, c)
        ELSE IF c = " " THEN 32
        ELSE IF c = "," THEN 44
        ELSE IF c = "-" THEN 45
        ELSE IF c = "." THEN 46
        ELSE IF c = "@" THEN 64
        ELSE IF c = "[" THEN 91
        ELSE IF c = "]" THEN 93
        ELSE 95]

LowerChar ==
    [c \in Alphabet |->
        IF c \in Range(UpperCase) THEN LowerCase[IndexOf(UpperCase, c)] ELSE c]

\* String.prototype.toLowerCase
ToLowerCase(s) == [i \in DOMAIN s |-> LowerChar[s[i]]]

\* String.prototype.includes: some window of s equals t.
Includes(s, t) ==
    \E k \in 0..(Len(s) - Len(t)) : SubSeq(s, k + 1, k + Len(t)) = t

\* s < t on strings: the first differing code unit decides, a proper prefix
\* is smaller.
RECURSIVE StrLess(_, _)
StrLess(s, t) ==
    IF t = <<>> THEN FALSE
    ELSE IF s = <<>> THEN TRUE
    ELSE IF s[1] = t[1] THEN StrLess(Tail(s), Tail(t))
    ELSE CodeUnit[s[1]] < CodeUnit[t[1]]

\* Number.prototype.toString of a natural number.
RECURSIVE NumToString(_)
NumToString(n) ==
    IF n < 10 THEN <<Digits[n + 1]>>
    ELSE Append(NumToString(n \div 10), Digits[(n % 10) + 1])

JSNull == [type |-> "null"]
JSUndefined == [type |-> "undefined"]
JSNaN == [type |-> "number", nan |-> TRUE]
Str(s) == [type |-> "string", val |-> s]
Num(n) == [type |-> "number", val |-> n]

\* ToBoolean: undefined, null, "", 0 and NaN are falsy.
Truthy(v) ==
    CASE v.type = "undefined" -> FALSE
      [] v.type = "null" -> FALSE
      [] v.type = "string" -> v.val # <<>>
      [] v.type = "number" -> v # JSNaN /\ v.val # 0
      [] OTHER -> TRUE

-----------------------------------------------------------------------------
(* faker: a seeded pseudo-random generator.  Every draw advances the       *)
(* state; what is drawn is a function of the state.                        *)

NextDraw(x) == (x * 37 + 11) % 1009

\* faker.number.int({ min, max })
FakerInt(f, min, max) ==
    [val |-> min + (NextDraw(f.x) % (max - min + 1)),
     faker |-> [f EXCEPT !.x = NextDraw(f.x)]]

\* faker.helpers.arrayElement(arr)
ArrayElement(f, arr) ==
    [val |-> arr[FakerInt(f, 1, Len(arr)).val],
     faker |-> FakerInt(f, 1, Len(arr)).faker]

\* faker.string.uuid(): random hexadecimal digits; no two calls of one
\* process return the same string (the count of calls stands for the
\* remaining random digits).
FakerUuid(f) ==
    [val |-> <<ArrayElement(f, HexDigits).val>> \o NumToString(f.uuids) \o <<"-">>,
     faker |-> [ArrayElement(f, HexDigits).faker EXCEPT !.uuids = f.uuids + 1]]

\* The vocabularies faker.person.fullName() and faker.internet.email()
\* draw from.
FullNames == << <<"B","e","a">>, <<"a","d","a","m">>,
                <<"A","l">>, <<"A","L">> >>
Emails == << <<"B","e","a","@","x",".","i","o">>,
             <<"a","l","@","y",".","i","o">>,
             <<"Z","e","d","@","x",".","i","o">> >>

\* formatISO(subDays(new Date(), n)): fixed width and zero padded, so that
\* the strings order as the days do.
FormatISO(day) ==
    <<Digits[((day \div 100) % 10) + 1], Digits[((day \div 10) % 10) + 1],
      Digits[(day % 10) + 1]>>

-----------------------------------------------------------------------------
(* lib/mockData.ts: generation.  Each generator takes the faker state and  *)
(* returns what it made with the state it left: [val, faker].              *)

itemNames == <<"Bespoke Linen Blazer", "Custom Wool Suit",
               "Tailored Cotton Shirt", "Designer Silk Dress",
               "Premium Cashmere Coat", "Hand-stitched Leather Jacket",
               "Classic Three-piece Suit", "Evening Gown",
               "Business Formal Shirt", "Wedding Dress">>
categories == <<"Jackets", "Trousers", "Dresses", "Shirts", "Suits">>
statuses == << <<"a","c","t","i","v","e">>,
               <<"c","h","u","r","n","e","d">>,
               <<"p","r","o","s","p","e","c","t">> >>

RECURSIVE SumOf(_, _)
\* arr.reduce((sum, x) => sum + x[field], 0)
SumOf(arr, field) ==
    IF arr = <<>> THEN 0
    ELSE SumOf(SubSeq(arr, 1, Len(arr) - 1), field) + arr[Len(arr)][field]

\* A generator returns [val, faker]: what it made and the faker state it
\* left. An operator that goes on from such a result takes it as a parameter.

\* One element of generateOrderItems' Array.from callback.
generateOrderItem(f) ==
    LET orderItemId == FakerUuid(f)
        itemName    == ArrayElement(orderItemId.faker, itemNames)
        category    == ArrayElement(itemName.faker, categories)
        price       == FakerInt(category.faker, 100, 1000)
        chest       == FakerInt(price.faker, 30, 50)
        waist       == FakerInt(chest.faker, 28, 48)
        hips        == FakerInt(waist.faker, 30, 50)
    IN  [val |-> [orderItemId |-> orderItemId.val,
                  itemName |-> itemName.val,
                  category |-> category.val,
                  price |-> price.val,
                  customSize |-> [chest |-> chest.val, waist |-> waist.val,
                                  hips |-> hips.val]],
         faker |-> hips.faker]

\* Array.from({ length }, callback): the elements made so far, and one more.
AppendMade(arr, made) == [val |-> Append(arr, made.val), faker |-> made.faker]

AppendItem(head) == AppendMade(head.val, generateOrderItem(head.faker))

RECURSIVE ArrayFromItems(_, _)
ArrayFromItems(f, length) ==
    IF length = 0 THEN [val |-> <<>>, faker |-> f]
    ELSE AppendItem(ArrayFromItems(f, length - 1))

ItemsOfCount(itemCount) == ArrayFromItems(itemCount.faker, itemCount.val)

generateOrderItems(f) == ItemsOfCount(FakerInt(f, 1, MaxItems))

\* Array.prototype.sort: a stable sort (ECMAScript 2019), here by insertion:
\* each element goes behind the last one that the comparator does not place
\* after it.  cmp[i][j] is the comparator's result for (arr[i], arr[j]);
\* what is sorted is the sequence of the elements' positions.
RECURSIVE InsertSorted(_, _, _)
InsertSorted(sorted, x, cmp) ==
    IF sorted = <<>> THEN <<x>>
    ELSE IF cmp[sorted[Len(sorted)]][x] > 0
         THEN Append(InsertSorted(SubSeq(sorted, 1, Len(sorted) - 1), x, cmp),
                     sorted[Len(sorted)])
         ELSE Append(sorted, x)

RECURSIVE SortedPositions(_, _)
SortedPositions(n, cmp) ==
    IF n = 0 THEN <<>>
    ELSE InsertSorted(SortedPositions(n - 1, cmp), n, cmp)

ArraySort(arr, cmp) ==
    LET at == SortedPositions(Len(arr), cmp)
    IN  [k \in DOMAIN arr |-> arr[at[k]]]

\* new Date(s).getTime() of a string FormatISO made.
RECURSIVE ParseDate(_)
ParseDate(s) ==
    IF s = <<>> THEN 0
    ELSE ParseDate(SubSeq(s, 1, Len(s) - 1)) * 10
            + (IndexOf(Digits, s[Len(s)]) - 1)

\* new Date(a.orderDate).getTime() - new Date(b.orderDate).getTime()
CompareOrderDates(a, b) == ParseDate(a.orderDate) - ParseDate(b.orderDate)

\* OrderOfItems with a reduce callback that returns item.price, not
\* sum + item.price: the total is the last item's price.
OrderOfItemsLastPrice(items, now) ==
    LET orderId == FakerUuid(items.faker)
        daysAgo == FakerInt(orderId.faker, 1, MaxDaysAgo)
    IN  [val |-> [orderId |-> orderId.val,
                  orderDate |-> FormatISO(now - daysAgo.val),
                  totalAmount |-> items.val[Len(items.val)].price,
                  items |-> items.val],
         faker |-> daysAgo.faker]

\* The order object literal, its items made.
OrderOfItems(items, now) ==
    LET orderId == FakerUuid(items.faker)
        daysAgo == FakerInt(orderId.faker, 1, MaxDaysAgo)
    IN  [val |-> [orderId |-> orderId.val,
                  orderDate |-> FormatISO(now - daysAgo.val),
                  totalAmount |-> SumOf(items.val, "price"),
                  items |-> items.val],
         faker |-> daysAgo.faker]

\* One element of generateOrders' Array.from callback.
generateOrder(f, now) == OrderOfItems(generateOrderItems(f), now)

AppendOrder(head, now) == AppendMade(head.val, generateOrder(head.faker, now))

RECURSIVE ArrayFromOrders(_, _, _)
ArrayFromOrders(f, now, length) ==
    IF length = 0 THEN [val |-> <<>>, faker |-> f]
    ELSE AppendOrder(ArrayFromOrders(f, now, length - 1), now)

OrdersOfCount(orderCount, now) ==
    ArrayFromOrders(orderCount.faker, now, orderCount.val)

\* The orders as Array.from made them, not sorted.
AsGenerated(orders) == orders

\* orders.sort((a, b) => time of a.orderDate - time of b.orderDate)
SortByOrderDate(orders) ==
    ArraySort(orders, [i \in DOMAIN orders |-> [j \in DOMAIN orders |->
                          CompareOrderDates(orders[i], orders[j])]])

SortMade(orders) == [val |-> SortByOrderDate(orders.val), faker |-> orders.faker]

generateOrders(f, now) ==
    SortMade(OrdersOfCount(FakerInt(f, 0, MaxOrders), now))

\* The customer object literal of createCustomerWithId and of
\* generateMockCustomers.
MakeCustomer(id, name, email, status, createdAt, orders) ==
    [id |-> id,
     name |-> name,
     email |-> email,
     status |-> status,
     revenue |-> SumOf(orders, "totalAmount"),
     createdAt |-> createdAt,
     orderCount |-> Len(orders),
     lastOrderDate |-> IF Len(orders) > 0
                       THEN Str(orders[Len(orders)].orderDate) ELSE JSNull,
     _orders |-> orders]

\* given || draw: the string given when there is one, a draw otherwise.
OrElse(given, f, vocabulary) ==
    IF Truthy(given) THEN [val |-> given.val, faker |-> f]
    ELSE ArrayElement(f, vocabulary)

\* createCustomerWithId's return, its orders made.
CustomerWithIdOfOrders(orders, now, id, name, email) ==
    LET n       == OrElse(name, orders.faker, FullNames)
        e       == OrElse(email, n.faker, Emails)
        status  == ArrayElement(e.faker, statuses)
        daysAgo == FakerInt(status.faker, 1, MaxDaysAgo)
    IN  [val |-> MakeCustomer(id, n.val, e.val, status.val,
                              FormatISO(now - daysAgo.val), orders.val),
         faker |-> daysAgo.faker]

\* name and email are optional: JSUndefined, or Str of the string given.
createCustomerWithId(f, now, id, name, email) ==
    CustomerWithIdOfOrders(generateOrders(f, now), now, id, name, email)

\* The first group of each known customer id.
knownCustomerIds ==
    << <<"a","6","0","5","a","c","6","1">>,
       <<"9","2","4","d","a","a","4","b">>,
       <<"2","9","6","8","7","9","a","c">>,
       <<"b","7","1","5","b","c","7","2">> >>

\* `Test User ${index + 1}` and `test${index + 1}@example.com`
TestUserName(n) ==
    Str(<<"T","e","s","t"," ","U","s","e","r"," ">> \o NumToString(n))
TestUserEmail(n) ==
    Str(<<"t","e","s","t">> \o NumToString(n)
           \o <<"@","e","x","a","m","p","l","e",".","c","o","m">>)

\* The map callback at position n (index n - 1).
AppendKnown(head, now, n) ==
    AppendMade(head.val, createCustomerWithId(head.faker, now, knownCustomerIds[n],
                                              TestUserName(n), TestUserEmail(n)))

RECURSIVE MapKnownCustomers(_, _, _)
\* knownCustomerIds.map((id, index) => createCustomerWithId(...)), up to the
\* element at position n.
MapKnownCustomers(f, now, n) ==
    IF n = 0 THEN [val |-> <<>>, faker |-> f]
    ELSE AppendKnown(MapKnownCustomers(f, now, n - 1), now, n)

createKnownCustomers(f, now) ==
    MapKnownCustomers(f, now, Len(knownCustomerIds))

\* The random customer's object literal, its orders made; i counts from 0.
RandomCustomerOfOrders(orders, now, i) ==
    LET id     == FakerUuid(orders.faker)
        name   == ArrayElement(id.faker, FullNames)
        email  == ArrayElement(name.faker, Emails)
        status == ArrayElement(email.faker, statuses)
    IN  [val |-> MakeCustomer(id.val, name.val, email.val, status.val,
                              FormatISO(now - (MaxDaysAgo + i)), orders.val),
         faker |-> status.faker]

\* One element of generateMockCustomers' Array.from callback.
generateRandomCustomer(f, now, i) ==
    RandomCustomerOfOrders(generateOrders(f, now), now, i)

AppendRandom(head, now, i) ==
    AppendMade(head.val, generateRandomCustomer(head.faker, now, i))

RECURSIVE ArrayFromCustomers(_, _, _)
ArrayFromCustomers(f, now, length) ==
    IF length = 0 THEN [val |-> <<>>, faker |-> f]
    ELSE AppendRandom(ArrayFromCustomers(f, now, length - 1), now, length - 1)

\* [...knownCustomers, ...randomCustomers]
ConcatMade(arr, made) == [val |-> arr \o made.val, faker |-> made.faker]

RandomAfterKnown(knownCustomers, now, count) ==
    ConcatMade(knownCustomers.val,
               ArrayFromCustomers(knownCustomers.faker, now, count))

generateMockCustomers(f, now, count) ==
    RandomAfterKnown(createKnownCustomers(f, now), now, count)

-----------------------------------------------------------------------------
(* lib/mockData.ts: the store's operations.                                *)

\* getCustomerSummary returning the customer as it is stored.
getCustomerWhole(customer) == customer

\* const { _orders, ...summary } = customer
getCustomerSummary(customer) ==
    [k \in DOMAIN customer \ {"_orders"} |-> customer[k]]

\* find over mockCustomers.slice(0, 5), the customers that getCustomerById
\* logs on a miss.
FindAmongFirst(store, id) ==
    IF \E i \in DOMAIN store : i <= 5 /\ id = Str(store[i].id)
    THEN CHOOSE i \in DOMAIN store :
            /\ id = Str(store[i].id)
            /\ \A j \in 1..(i - 1) : id # Str(store[j].id)
    ELSE 0

\* mockCustomers.find(c => c.id === id): the position of the first customer
\* with that id, 0 when there is none.  id is a tagged value; === holds of a
\* string only.
FindCustomer(store, id) ==
    IF \E i \in DOMAIN store : id = Str(store[i].id)
    THEN CHOOSE i \in DOMAIN store :
            /\ id = Str(store[i].id)
            /\ \A j \in 1..(i - 1) : id # Str(store[j].id)
    ELSE 0

\* getCustomerById without the lookup: a customer is created and pushed at
\* every call.
getCustomerByIdAlwaysNew(store, f, now, id) ==
    LET made == createCustomerWithId(f, now, id,
                            Str(<<"F","a","l","l","b","a","c","k"," ",
                                  "C","u","s","t","o","m","e","r">>),
                            Str(<<"f","a","l","l","b","a","c","k","@",
                                  "e","x","a","m","p","l","e",".","c","o","m">>))
    IN  [mockCustomers |-> Append(store, made.val),
         faker |-> made.faker,
         customer |-> made.val]

\* getCustomerById without the push: the customer created on a miss is
\* returned and not stored.
getCustomerByIdNotStored(store, f, now, id) ==
    LET at == FindCustomer(store, Str(id))
    IN  IF at # 0
        THEN [mockCustomers |-> store, faker |-> f, customer |-> store[at]]
        ELSE LET made == createCustomerWithId(f, now, id,
                            Str(<<"F","a","l","l","b","a","c","k"," ",
                                  "C","u","s","t","o","m","e","r">>),
                            Str(<<"f","a","l","l","b","a","c","k","@",
                                  "e","x","a","m","p","l","e",".","c","o","m">>))
             IN  [mockCustomers |-> store,
                  faker |-> made.faker,
                  customer |-> made.val]

\* Returns [mockCustomers, faker, customer].  id is a string.
getCustomerById(store, f, now, id) ==
    LET at == FindCustomer(store, Str(id))
    IN  IF at # 0
        THEN [mockCustomers |-> store, faker |-> f, customer |-> store[at]]
        ELSE LET made == createCustomerWithId(f, now, id,
                            Str(<<"F","a","l","l","b","a","c","k"," ",
                                  "C","u","s","t","o","m","e","r">>),
                            Str(<<"f","a","l","l","b","a","c","k","@",
                                  "e","x","a","m","p","l","e",".","c","o","m">>))
             IN  [mockCustomers |-> Append(store, made.val),
                  faker |-> made.faker,
                  customer |-> made.val]

\* updateCustomerStatus looking the customer up as getCustomerById does:
\* a customer that is not found is created, with the new status.
updateCustomerStatusOrCreate(store, customerId, newStatus) ==
    LET at == FindCustomer(store, customerId)
    IN  IF at # 0
        THEN [mockCustomers |-> [store EXCEPT ![at].status = newStatus.val],
              success |-> TRUE]
        ELSE [mockCustomers |->
                 Append(store, MakeCustomer(customerId, <<"F">>, <<"f">>,
                                            newStatus.val, FormatISO(0), <<>>)),
              success |-> TRUE]

\* Returns [mockCustomers, success].
updateCustomerStatus(store, customerId, newStatus) ==
    LET at == FindCustomer(store, customerId)
    IN  IF at # 0
        THEN [mockCustomers |-> [store EXCEPT ![at].status = newStatus.val],
              success |-> TRUE]
        ELSE [mockCustomers |-> store, success |-> FALSE]

\* customer._orders.find(o => o.orderId === orderId): the position of the
\* first order with that id, 0 when there is none.  orderId is a tagged value.
FindOrder(orders, orderId) ==
    IF \E i \in DOMAIN orders : orderId = Str(orders[i].orderId)
    THEN CHOOSE i \in DOMAIN orders :
            /\ orderId = Str(orders[i].orderId)
            /\ \A j \in 1..(i - 1) : orderId # Str(orders[j].orderId)
    ELSE 0

\* order.items.find(item => item.orderItemId === orderItemId)
FindItem(items, orderItemId) ==
    IF \E i \in DOMAIN items : orderItemId = Str(items[i].orderItemId)
    THEN CHOOSE i \in DOMAIN items :
            /\ orderItemId = Str(items[i].orderItemId)
            /\ \A j \in 1..(i - 1) : orderItemId # Str(items[j].orderItemId)
    ELSE 0

\* The CustomSize object an item holds: the three numbers of the object
\* assigned to it.
StoredSize(customSize) ==
    [chest |-> customSize.chest.val,
     waist |-> customSize.waist.val,
     hips |-> customSize.hips.val]

\* AssignSize giving the measurements to every item of the order.
AssignSizeToAll(store, c, o, i, customSize) ==
    [store EXCEPT ![c]._orders[o].items =
        [k \in DOMAIN @ |-> [@[k] EXCEPT !.customSize = StoredSize(customSize)]]]

\* AssignSize leaving the order with the measured item alone.
AssignSizeAlone(store, c, o, i, customSize) ==
    [store EXCEPT ![c]._orders[o].items =
        <<[@[i] EXCEPT !.customSize = StoredSize(customSize)]>>]

\* orderItem.customSize = customSize, at the positions found.
AssignSize(store, c, o, i, customSize) ==
    [store EXCEPT ![c]._orders[o].items[i].customSize = StoredSize(customSize)]

\* updateOrderItemSize looking for the item in every order of the customer,
\* once the order named is found.
updateOrderItemSizeInAnyOrder(store, customerId, orderId, orderItemId, customSize) ==
    LET c == FindCustomer(store, Str(customerId))
        named == IF c = 0 THEN 0 ELSE FindOrder(store[c]._orders, orderId)
        holding == IF named = 0 THEN {}
                   ELSE {o \in DOMAIN store[c]._orders :
                           FindItem(store[c]._orders[o].items, orderItemId) # 0}
    IN  IF holding = {}
        THEN [mockCustomers |-> store, success |-> FALSE]
        ELSE LET o == CHOOSE o \in holding : \A k \in holding : o <= k
             IN  [mockCustomers |->
                     AssignSize(store, c, o,
                                FindItem(store[c]._orders[o].items, orderItemId),
                                customSize),
                  success |-> TRUE]

\* Returns [mockCustomers, success].  customerId is a string; orderId and
\* orderItemId are tagged values.
updateOrderItemSize(store, customerId, orderId, orderItemId, customSize) ==
    LET c == FindCustomer(store, Str(customerId))
        o == IF c = 0 THEN 0 ELSE FindOrder(store[c]._orders, orderId)
        i == IF o = 0 THEN 0
             ELSE FindItem(store[c]._orders[o].items, orderItemId)
    IN  IF c = 0 \/ o = 0 \/ i = 0
        THEN [mockCustomers |-> store, success |-> FALSE]
        ELSE [mockCustomers |-> AssignSize(store, c, o, i, customSize),
              success |-> TRUE]

-----------------------------------------------------------------------------
(* pages/api/customers.ts                                                  *)

\* interface Customer: the fields that hold numbers.
NumberFields == {"revenue", "orderCount"}

\* Prop reading the name when the customer has no such key:
\* a[sortBy] ?? a.name.
PropOrName(customer, key) ==
    IF key \notin DOMAIN customer THEN Str(customer.name)
    ELSE IF key \in NumberFields THEN Num(customer[key])
    ELSE IF key = "lastOrderDate" THEN customer[key]
    ELSE IF key = "_orders" THEN [type |-> "object", val |-> customer[key]]
    ELSE Str(customer[key])

\* customer[key]: the value read, tagged with its JavaScript type.
Prop(customer, key) ==
    IF key \notin DOMAIN customer THEN JSUndefined
    ELSE IF key \in NumberFields THEN Num(customer[key])
    ELSE IF key = "lastOrderDate" THEN customer[key]
    ELSE IF key = "_orders" THEN [type |-> "object", val |-> customer[key]]
    ELSE Str(customer[key])

\* The default of a destructured query parameter applies to undefined only.
Default(v, d) == IF v = JSUndefined THEN d ELSE v

\* MatchesSearch with the email left out.
MatchesSearchNameOnly(customer, searchLower) ==
    Includes(ToLowerCase(customer.name), searchLower)

\* customer => name.toLowerCase().includes(searchLower) ||
\*             email.toLowerCase().includes(searchLower)
MatchesSearch(customer, searchLower) ==
    \/ Includes(ToLowerCase(customer.name), searchLower)
    \/ Includes(ToLowerCase(customer.email), searchLower)

\* "Apply search filter"
ApplySearch(arr, search) ==
    IF Truthy(search) /\ search.type = "string"
    THEN LET searchLower == ToLowerCase(search.val)
             Keep(c) == MatchesSearch(c, searchLower)
         IN  SelectSeq(arr, Keep)
    ELSE arr

\* String(array) of an array of n objects: "[object Object]" joined by
\* commas.
RECURSIVE JoinObjects(_)
JoinObjects(n) ==
    IF n = 0 THEN <<>>
    ELSE JoinObjects(n - 1)
            \o (IF n = 1 THEN <<>> ELSE <<",">>)
            \o <<"[","o","b","j","e","c","t"," ","O","b","j","e","c","t","]">>

ObjectArrayToString(arr) == JoinObjects(Len(arr))

\* a < b on two values of the comparator: strings by code units, numbers by
\* value, arrays by their strings; a comparison with undefined is false.
Less(a, b) ==
    CASE a.type = "string" /\ b.type = "string" -> StrLess(a.val, b.val)
      [] a.type = "number" /\ b.type = "number" -> a.val < b.val
      [] a.type = "object" /\ b.type = "object" ->
            StrLess(ObjectArrayToString(a.val), ObjectArrayToString(b.val))
      [] OTHER -> FALSE

\* Comparable without the lower-casing.
ComparableRaw(aValue, v) == v

\* "Convert to comparable values": when typeof aValue === 'string' both
\* values are lower-cased (bValue is then taken to be a string as well).
Comparable(aValue, v) ==
    IF aValue.type = "string" THEN Str(ToLowerCase(v.val)) ELSE v

\* CompareCustomers with the null rule placed under the direction as well.
CompareCustomersNullsFlip(a, b, sortBy, order) ==
    LET aValue == Prop(a, sortBy)
        bValue == Prop(b, sortBy)
        result == IF aValue = JSNull /\ bValue = JSNull THEN 0
                  ELSE IF aValue = JSNull THEN 1
                  ELSE IF bValue = JSNull THEN -1
                  ELSE IF Less(Comparable(aValue, aValue), Comparable(aValue, bValue))
                       THEN -1
                  ELSE IF Less(Comparable(aValue, bValue), Comparable(aValue, aValue))
                       THEN 1
                  ELSE 0
    IN  IF order = Str(<<"d","e","s","c">>) THEN -result ELSE result

\* CompareCustomers with a comparison that never answers "equal":
\* result = aValue < bValue ? -1 : 1.
CompareCustomersNoTie(a, b, sortBy, order) ==
    LET aValue == Prop(a, sortBy)
        bValue == Prop(b, sortBy)
    IN  IF aValue = JSNull /\ bValue = JSNull THEN 0
        ELSE IF aValue = JSNull THEN 1
        ELSE IF bValue = JSNull THEN -1
        ELSE LET result == IF Less(Comparable(aValue, aValue),
                                   Comparable(aValue, bValue)) THEN -1 ELSE 1
             IN  IF order = Str(<<"d","e","s","c">>) THEN -result ELSE result

\* CompareCustomers without the direction: the result is returned as it is
\* under 'desc' as well.
CompareCustomersAscOnly(a, b, sortBy, order) ==
    LET aValue == Prop(a, sortBy)
        bValue == Prop(b, sortBy)
    IN  IF aValue = JSNull /\ bValue = JSNull THEN 0
        ELSE IF aValue = JSNull THEN 1
        ELSE IF bValue = JSNull THEN -1
        ELSE IF Less(Comparable(aValue, aValue), Comparable(aValue, bValue)) THEN -1
        ELSE IF Less(Comparable(aValue, bValue), Comparable(aValue, aValue)) THEN 1
        ELSE 0

\* The comparator handed to filteredCustomers.sort.
CompareCustomers(a, b, sortBy, order) ==
    LET aValue == Prop(a, sortBy)
        bValue == Prop(b, sortBy)
    IN  IF aValue = JSNull /\ bValue = JSNull THEN 0
        ELSE IF aValue = JSNull THEN 1
        ELSE IF bValue = JSNull THEN -1
        ELSE LET aLower == Comparable(aValue, aValue)
                 bLower == Comparable(aValue, bValue)
                 result == IF Less(aLower, bLower) THEN -1
                           ELSE IF Less(bLower, aLower) THEN 1
                           ELSE 0
             IN  IF order = Str(<<"d","e","s","c">>) THEN -result ELSE result

\* "Apply sorting"
ApplySort(arr, sortBy, order) ==
    IF sortBy.type = "string"
    THEN ArraySort(arr, [i \in DOMAIN arr |-> [j \in DOMAIN arr |->
                            CompareCustomers(arr[i], arr[j], sortBy.val, order)]])
    ELSE arr

\* parseInt(s, 10) of a string: blanks, a sign, then the decimal digits up
\* to the first other character; NaN when there is no digit.
RECURSIVE DigitsValue(_, _)
DigitsValue(s, acc) ==
    IF s = <<>> \/ s[1] \notin Range(Digits) THEN acc
    ELSE DigitsValue(Tail(s), acc * 10 + (IndexOf(Digits, s[1]) - 1))

RECURSIVE ParseInt(_)
ParseInt(s) ==
    IF s = <<>> THEN JSNaN
    ELSE IF s[1] = " " THEN ParseInt(Tail(s))
    ELSE IF s[1] = "-"
         THEN IF Len(s) > 1 /\ s[2] \in Range(Digits)
              THEN Num(0 - DigitsValue(Tail(s), 0)) ELSE JSNaN
    ELSE IF s[1] \in Range(Digits) THEN Num(DigitsValue(s, 0))
    ELSE JSNaN

\* Array.prototype.slice(start, end) with start and end numbers: NaN counts
\* as 0, a negative index counts from the end, both are clamped to the array.
SliceIndex(n, len) ==
    IF n = JSNaN THEN 0
    ELSE IF n.val < 0 THEN (IF len + n.val < 0 THEN 0 ELSE len + n.val)
    ELSE IF n.val > len THEN len ELSE n.val

Slice(arr, start, end) ==
    SubSeq(arr, SliceIndex(start, Len(arr)) + 1, SliceIndex(end, Len(arr)))

\* Number arithmetic of the handler; NaN spreads.
Minus(a, b) == IF a = JSNaN \/ b = JSNaN THEN JSNaN ELSE Num(a.val - b.val)
Plus(a, b) == IF a = JSNaN \/ b = JSNaN THEN JSNaN ELSE Num(a.val + b.val)
Times(a, b) == IF a = JSNaN \/ b = JSNaN THEN JSNaN ELSE Num(a.val * b.val)

\* Math.ceil(length / limitNum); length is an array's length.
CeilDiv(length, limitNum) ==
    IF limitNum = JSNaN THEN JSNaN
    ELSE IF limitNum.val = 0
         THEN (IF length = 0 THEN JSNaN ELSE [type |-> "number", infinite |-> TRUE])
    ELSE IF limitNum.val > 0
         THEN Num((length + limitNum.val - 1) \div limitNum.val)
    ELSE Num(0 - (length \div (0 - limitNum.val)))

\* PageBounds with the page taken to count from 0.
PageBoundsFromZero(page, limit) ==
    LET pageNum    == ParseInt(page.val)
        limitNum   == ParseInt(limit.val)
        startIndex == Times(pageNum, limitNum)
    IN  [pageNum |-> pageNum, limitNum |-> limitNum,
         startIndex |-> startIndex, endIndex |-> Plus(startIndex, limitNum)]

\* "Apply pagination": the start and end index of the page.
PageBounds(page, limit) ==
    LET pageNum    == ParseInt(page.val)
        limitNum   == ParseInt(limit.val)
        startIndex == Times(Minus(pageNum, Num(1)), limitNum)
    IN  [pageNum |-> pageNum, limitNum |-> limitNum,
         startIndex |-> startIndex, endIndex |-> Plus(startIndex, limitNum)]

\* Pagination with the totals taken from the page.
PaginationOfPage(sorted, paginated, at) ==
    [currentPage |-> at.pageNum,
     totalPages |-> CeilDiv(Len(paginated), at.limitNum),
     totalItems |-> Num(Len(paginated)),
     itemsPerPage |-> at.limitNum]

\* The pagination object of the response.
Pagination(sorted, paginated, at) ==
    [currentPage |-> at.pageNum,
     totalPages |-> CeilDiv(Len(sorted), at.limitNum),
     totalItems |-> Num(Len(sorted)),
     itemsPerPage |-> at.limitNum]

\* StoreAfterGet had filteredCustomers been mockCustomers itself: without a
\* search text (filter makes a new array) the sort would reorder the store.
StoreAfterGetInPlace(store, search, sorted) ==
    IF Truthy(search) /\ search.type = "string" THEN store ELSE sorted

\* mockCustomers after the GET branch: filteredCustomers is a copy
\* ([...mockCustomers]), so filtering and sorting it leave the store's array
\* as it was.
StoreAfterGet(store, search, sorted) == store

\* The GET branch.  query holds page, limit, sortBy, order and search, each
\* JSUndefined or a string.  Returns [mockCustomers, filteredCustomers, res].
handlerGET(store, query) ==
    LET page     == Default(query.page, Str(<<"1">>))
        limit    == Default(query.limit, Str(<<"1","0">>))
        sortBy   == Default(query.sortBy, Str("name"))
        order    == Default(query.order, Str(<<"a","s","c">>))
        search   == Default(query.search, Str(<<>>))
        filtered == ApplySearch(store, search)
        sorted   == ApplySort(filtered, sortBy, order)
        at       == PageBounds(page, limit)
        paginatedCustomers == Slice(sorted, at.startIndex, at.endIndex)
        customerSummaries  == [i \in DOMAIN paginatedCustomers |->
                                  getCustomerSummary(paginatedCustomers[i])]
    IN  [mockCustomers |-> StoreAfterGet(store, search, sorted),
         filteredCustomers |-> sorted,
         res |-> [status |-> 200,
                  json |-> [customers |-> customerSummaries,
                            pagination |->
                                Pagination(sorted, paginatedCustomers, at)]]]

\* validStatuses with one status more.
validStatusesAndDeleted == Append(statuses, <<"d","e","l","e","t","e","d">>)

\* const validStatuses = ['active', 'churned', 'prospect']
validStatuses == statuses

\* handlerPATCH looking the status up without regard to case:
\* validStatuses.includes(status.toLowerCase()).
handlerPATCHAnyCase(store, body) ==
    IF ~Truthy(body.customerId) \/ ~Truthy(body.status)
    THEN [mockCustomers |-> store,
          res |-> [status |-> 400, json |-> [error |-> "Missing customerId or status"]]]
    ELSE IF \/ body.status.type # "string"
            \/ ~(\E i \in DOMAIN validStatuses :
                    ToLowerCase(body.status.val) = validStatuses[i])
    THEN [mockCustomers |-> store,
          res |-> [status |-> 400, json |-> [error |->
                "Invalid status. Must be one of: active, churned, prospect"]]]
    ELSE LET done == updateCustomerStatus(store, body.customerId, body.status)
         IN  IF done.success
             THEN [mockCustomers |-> done.mockCustomers,
                   res |-> [status |-> 200,
                            json |-> [message |-> "Customer status updated successfully",
                                      customerId |-> body.customerId,
                                      newStatus |-> body.status]]]
             ELSE [mockCustomers |-> done.mockCustomers,
                   res |-> [status |-> 404, json |-> [error |-> "Customer not found"]]]

\* The PATCH branch.  body holds customerId and status, any JSON values.
\* Returns [mockCustomers, res].
handlerPATCH(store, body) ==
    IF ~Truthy(body.customerId) \/ ~Truthy(body.status)
    THEN [mockCustomers |-> store,
          res |-> [status |-> 400, json |-> [error |-> "Missing customerId or status"]]]
    ELSE IF ~(\E i \in DOMAIN validStatuses : body.status = Str(validStatuses[i]))
    THEN [mockCustomers |-> store,
          res |-> [status |-> 400, json |-> [error |->
                "Invalid status. Must be one of: active, churned, prospect"]]]
    ELSE LET done == updateCustomerStatus(store, body.customerId, body.status)
         IN  IF done.success
             THEN [mockCustomers |-> done.mockCustomers,
                   res |-> [status |-> 200,
                            json |-> [message |-> "Customer status updated successfully",
                                      customerId |-> body.customerId,
                                      newStatus |-> body.status]]]
             ELSE [mockCustomers |-> done.mockCustomers,
                   res |-> [status |-> 404, json |-> [error |-> "Customer not found"]]]

-----------------------------------------------------------------------------
(* pages/api/customers/[id]/orders.ts                                      *)

\* v[key] of a JSON value: undefined unless v is an object holding the key.
Member(v, key) ==
    IF v.type = "object" /\ key \in DOMAIN v THEN v[key] ELSE JSUndefined

\* typeof v of a JSON value
TypeOf(v) == v.type

\* UpdatedItem taking the last item of the order found.
UpdatedItemLast(customer, orderId, orderItemId) ==
    LET o == FindOrder(customer._orders, orderId)
    IN  IF o = 0 THEN JSUndefined
        ELSE customer._orders[o].items[Len(customer._orders[o].items)]

\* updatedCustomer?._orders.find(...) and updatedOrder?.items.find(...)
UpdatedItem(customer, orderId, orderItemId) ==
    LET o == FindOrder(customer._orders, orderId)
        i == IF o = 0 THEN 0 ELSE FindItem(customer._orders[o].items, orderItemId)
    IN  IF i = 0 THEN JSUndefined ELSE customer._orders[o].items[i]

\* The success response of PATCH, from what getCustomerById returned.
UpdatedResponse(got, body) ==
    [mockCustomers |-> got.mockCustomers,
     faker |-> got.faker,
     res |-> [status |-> 200,
              json |-> [message |-> "Order item updated successfully",
                        updatedItem |-> UpdatedItem(got.customer, body.orderId,
                                                    body.orderItemId)]]]

\* The PATCH branch after the validation.
UpdateAndRespond(done, f, now, id, body) ==
    IF done.success
    THEN UpdatedResponse(getCustomerById(done.mockCustomers, f, now, id), body)
    ELSE [mockCustomers |-> done.mockCustomers,
          faker |-> f,
          res |-> [status |-> 404,
                   json |-> [error |-> "Customer, order, or order item not found"]]]

\* The PATCH branch.  body holds orderId, orderItemId and customSize, any
\* JSON values.  Returns [mockCustomers, faker, res].
handlerOrdersPATCH(store, f, now, id, body) ==
    IF ~Truthy(body.orderId) \/ ~Truthy(body.orderItemId) \/ ~Truthy(body.customSize)
    THEN [mockCustomers |-> store,
          faker |-> f,
          res |-> [status |-> 400, json |-> [error |->
                "Missing required fields: orderId, orderItemId, customSize"]]]
    ELSE IF \/ TypeOf(Member(body.customSize, "chest")) # "number"
            \/ TypeOf(Member(body.customSize, "waist")) # "number"
            \/ TypeOf(Member(body.customSize, "hips")) # "number"
    THEN [mockCustomers |-> store,
          faker |-> f,
          res |-> [status |-> 400, json |-> [error |->
                "Invalid customSize format. Expected numbers for chest, waist, and hips."]]]
    ELSE UpdateAndRespond(
            updateOrderItemSize(store, id, body.orderId, body.orderItemId,
                                body.customSize),
            f, now, id, body)

-----------------------------------------------------------------------------
NoReq == [method |-> "none"]
NoRes == [status |-> 0]

\* useRef<AbortController | null>(null), useRef<NodeJS.Timeout | null>(null)
NoController == 0
NoTimeout == [armed |-> FALSE]

\* CustomerTable before its first effects: the values of its useState and
\* useRef calls.
CustomerTableState ==
    [customers |-> <<>>,
     loading |-> TRUE,
     page |-> 0,
     rowsPerPage |-> 10,
     sortBy |-> "name",
     sortOrder |-> <<"a","s","c">>,
     editingCustomer |-> JSNull,
     editedStatus |-> <<"a","c","t","i","v","e">>,
     searchTerm |-> <<>>,
     debouncedSearchTerm |-> <<>>,
     totalItems |-> Num(0),
     error |-> JSNull,
     abortControllerRef |-> NoController,
     searchTimeoutRef |-> NoTimeout]

\* No row of the table is expanded: <Collapse unmountOnExit> holds no
\* OrdersTable.
NotMounted == [customerId |-> JSNull]

\* faker.seed(12345) in development, a seed of faker's choice otherwise;
\* then `export const mockCustomers = generateMockCustomers(96)`.
Init ==
    \E seed \in 1..NumSeeds :
        /\ today = 500
        /\ LET made == generateMockCustomers([x |-> seed, uuids |-> 0], today, NumRandom)
           IN  /\ mockCustomers = made.val
               /\ faker = made.faker
        /\ req = NoReq
        /\ res = NoRes
        /\ filteredCustomers = <<>>
        /\ network = {}
        /\ customerTable = CustomerTableState
        /\ ordersTable = NotMounted

-----------------------------------------------------------------------------
(* The requests a client sends.                                            *)

SummaryFields == {"id", "name", "email", "status", "revenue", "createdAt",
                  "orderCount", "lastOrderDate"}

Asc == Str(<<"a","s","c">>)
Desc == Str(<<"d","e","s","c">>)

Pages == {JSUndefined, Str(<<"2">>), Str(<<"3">>), Str(<<"0">>)}
Limits == {JSUndefined, Str(<<"2">>), Str(<<"5">>)}
SortKeys == {JSUndefined} \cup {Str(k) : k \in SummaryFields}
                \cup {Str("rank")}
SortOrders == {JSUndefined, Asc, Desc}
Searches == {JSUndefined, Str(<<"a">>), Str(<<"A","L">>),
             Str(<<"T","E","S","T","1">>), Str(<<"q">>)}

\* The query strings of GET /api/customers.
Queries ==
    [page : Pages, limit : Limits, sortBy : SortKeys, order : SortOrders,
     search : Searches]

\* The queries sent between the requests that change the store.
ServiceQueries ==
    [page : {JSUndefined}, limit : {JSUndefined, Str(<<"5">>)},
     sortBy : {JSUndefined, Str("status"), Str("lastOrderDate")},
     order : {Asc, Desc}, search : {JSUndefined, Str(<<"a">>)}]

\* The customer ids a client names: two known customers' and one that no
\* generated customer has.
RequestIds ==
    {knownCustomerIds[1], knownCustomerIds[3], <<"c","u","s","t","-","1">>}

\* The bodies of PATCH /api/customers.
StatusBodies ==
    [customerId : {Str(id) : id \in RequestIds} \cup {JSUndefined, Num(7)},
     status : {Str(validStatuses[i]) : i \in DOMAIN validStatuses}
                \cup {Str(<<"A","c","t","i","v","e">>),
                      Str(<<"d","e","l","e","t","e","d">>),
                      Str(<<>>), JSNull, JSUndefined, Num(1)}]

-----------------------------------------------------------------------------
(* One action per request: the handler runs from the request to the        *)
(* response.  A client sends a request when none is being answered, or     *)
(* repeats the GET it has just been answered.                              *)

CustomersUrl == "/api/customers"

GetCustomers(query) ==
    LET r   == [method |-> "GET", url |-> CustomersUrl, query |-> query]
        out == handlerGET(mockCustomers, query)
    IN  /\ req = NoReq \/ (req = r /\ res # NoRes)
        /\ req' = r
        /\ res' = out.res
        /\ filteredCustomers' = out.filteredCustomers
        /\ mockCustomers' = out.mockCustomers
        /\ UNCHANGED <<faker, today>>
        /\ UNCHANGED browser

PatchCustomers(body) ==
    LET out == handlerPATCH(mockCustomers, body)
    IN  /\ req = NoReq
        /\ req' = [method |-> "PATCH", url |-> CustomersUrl, body |-> body]
        /\ res' = out.res
        /\ mockCustomers' = out.mockCustomers
        /\ UNCHANGED <<faker, today, filteredCustomers>>
        /\ UNCHANGED browser

\* res.setHeader('Allow', ['GET', 'PATCH']); res.status(405).end(...)
OtherMethod(method) ==
    /\ req = NoReq
    /\ req' = [method |-> method, url |-> CustomersUrl]
    /\ res' = [status |-> 405, allow |-> <<"GET", "PATCH">>]
    /\ UNCHANGED <<mockCustomers, faker, today, filteredCustomers>>
    /\ UNCHANGED browser

\* GET /api/customers/{id}/orders
GetOrders(id) ==
    LET got == getCustomerById(mockCustomers, faker, today, id)
    IN  /\ req = NoReq
        /\ req' = [method |-> "GET", url |-> "/api/customers/[id]/orders", id |-> id]
        /\ res' = [status |-> 200, json |-> [orders |-> got.customer._orders]]
        /\ mockCustomers' = got.mockCustomers
        /\ faker' = got.faker
        /\ UNCHANGED <<today, filteredCustomers>>
        /\ UNCHANGED browser

\* The response has been sent; the next request may come.
EndRequest ==
    /\ req # NoReq
    /\ req' = NoReq
    /\ res' = NoRes
    /\ filteredCustomers' = <<>>
    /\ UNCHANGED <<mockCustomers, faker, today>>
    /\ UNCHANGED browser

Next ==
    \/ \E query \in ServiceQueries : GetCustomers(query)
    \/ \E body \in StatusBodies : PatchCustomers(body)
    \/ \E method \in {"POST", "DELETE"} : OtherMethod(method)
    \/ \E id \in RequestIds : GetOrders(id)
    \/ EndRequest

Spec == Init /\ [][Next]_vars

\* The query pipeline alone, over every query.
NextQuery ==
    \/ \E query \in Queries : GetCustomers(query)
    \/ EndRequest

SpecQuery == Init /\ [][NextQuery]_vars

-----------------------------------------------------------------------------
(* The requests to /api/customers/{id}/orders, and the service they are    *)
(* sent to.                                                                *)

OrdersUrl == "/api/customers/[id]/orders"

\* The customer ids of GET: a known customer's and two that no generated
\* customer has.
OrdersRequestIds ==
    {knownCustomerIds[1], <<"c","u","s","t","-","1">>, <<"c","u","s","t","-","2">>}

\* The customer ids of PATCH.
SizeRequestIds == {knownCustomerIds[1], <<"c","u","s","t","-","1">>}

\* The orders a client has seen of the customers it sends PATCH for: the
\* first and the last order of each.
SeenOrders(store) ==
    UNION {{store[c]._orders[1], store[c]._orders[Len(store[c]._orders)]} :
             c \in {c \in DOMAIN store :
                      store[c].id \in SizeRequestIds /\ store[c]._orders # <<>>}}

\* The order ids a client names: those seen, and one that no order has.
OrderIds(store) ==
    {Str(o.orderId) : o \in SeenOrders(store)}
        \cup {Str(<<"o","r","d","e","r","-","1">>)}

\* The item ids a client names: the first item of each order seen, and one
\* that no item has.
OrderItemIds(store) ==
    {Str(o.items[1].orderItemId) : o \in SeenOrders(store)}
        \cup {Str(<<"i","t","e","m","-","1">>)}

Object(chest, waist, hips) ==
    [type |-> "object", chest |-> chest, waist |-> waist, hips |-> hips]

\* The measurements that are three numbers.
Measured == Object(Num(40), Num(32), Num(38))
Negative == Object(Num(0 - 1), Num(32), Num(38))

\* The values of customSize that are not three numbers: a field missing, a
\* field that is a numeral or null, a string, nothing.
OtherSizes ==
    {[type |-> "object", chest |-> Num(40), waist |-> Num(32)],
     Object(Num(40), Str(<<"3","2">>), Num(38)),
     Object(JSNull, Num(32), Num(38)),
     Str(<<"4","0">>),
     JSUndefined}

\* A body naming the first item of an order seen.
BodyOf(o, size) ==
    [orderId |-> Str(o.orderId), orderItemId |-> Str(o.items[1].orderItemId),
     customSize |-> size]

\* The bodies of PATCH /api/customers/{id}/orders: numbers for any order and
\* item named, every other value for the items seen, and an id left out.
SizeBodies(store) ==
    [orderId : OrderIds(store), orderItemId : OrderItemIds(store),
     customSize : {Measured}]
    \cup {BodyOf(o, size) : o \in SeenOrders(store),
                            size \in {Negative} \cup OtherSizes}
    \cup {[BodyOf(o, Measured) EXCEPT !.orderItemId = JSUndefined] :
             o \in SeenOrders(store)}
    \cup {[BodyOf(o, Measured) EXCEPT !.orderId = Str(<<>>)] :
             o \in SeenOrders(store)}

\* GET /api/customers/{id}/orders is GetOrders(id).

\* PATCH /api/customers/{id}/orders
PatchOrders(id, body) ==
    LET out == handlerOrdersPATCH(mockCustomers, faker, today, id, body)
    IN  /\ req = NoReq
        /\ req' = [method |-> "PATCH", url |-> OrdersUrl, id |-> id, body |-> body]
        /\ res' = out.res
        /\ mockCustomers' = out.mockCustomers
        /\ faker' = out.faker
        /\ UNCHANGED <<today, filteredCustomers>>
        /\ UNCHANGED browser

\* res.setHeader('Allow', ['GET', 'PATCH']); res.status(405).end(...)
OtherOrdersMethod(method, id) ==
    /\ req = NoReq
    /\ req' = [method |-> method, url |-> OrdersUrl, id |-> id]
    /\ res' = [status |-> 405, allow |-> <<"GET", "PATCH">>]
    /\ UNCHANGED <<mockCustomers, faker, today, filteredCustomers>>
    /\ UNCHANGED browser

\* GET /api/customers without a query string.
NoQuery ==
    [page |-> JSUndefined, limit |-> JSUndefined, sortBy |-> JSUndefined,
     order |-> JSUndefined, search |-> JSUndefined]

\* The bodies of PATCH /api/customers sent between the requests for orders.
ChurnBodies ==
    [customerId : {Str(knownCustomerIds[1])},
     status : {Str(<<"c","h","u","r","n","e","d">>)}]

\* The orders of the customers, read and measured, among the other requests.
NextOrders ==
    \/ \E id \in OrdersRequestIds : GetOrders(id)
    \/ \E id \in SizeRequestIds : \E body \in SizeBodies(mockCustomers) :
          PatchOrders(id, body)
    \/ \E id \in SizeRequestIds : OtherOrdersMethod("DELETE", id)
    \/ GetCustomers(NoQuery)
    \/ \E body \in ChurnBodies : PatchCustomers(body)
    \/ EndRequest

SpecOrders == Init /\ [][NextOrders]_vars

-----------------------------------------------------------------------------
(* What the properties below speak of: the request answered, with the      *)
(* defaults of its query, and text compared without regard to case.        *)

\* GET /api/customers has been answered.
GotCustomers ==
    /\ req.method = "GET"
    /\ req.url = CustomersUrl
    /\ res # NoRes

\* The number a decimal numeral stands for.
Decimal(s) == CHOOSE n \in 0..99 : NumToString(n) = s

QuerySearch ==
    IF req.query.search = JSUndefined THEN <<>> ELSE req.query.search.val
QuerySortBy ==
    IF req.query.sortBy = JSUndefined THEN "name" ELSE req.query.sortBy.val
QueryDescending == req.query.order = Desc
QueryPage ==
    IF req.query.page = JSUndefined THEN 1 ELSE Decimal(req.query.page.val)
QueryLimit ==
    IF req.query.limit = JSUndefined THEN 10 ELSE Decimal(req.query.limit.val)

\* The code unit of a character with upper-case letters taken as their
\* lower-case ones.
FoldCode(ch) ==
    IF \E i \in DOMAIN UpperCase : UpperCase[i] = ch
    THEN CodeUnit[ch] + 32 ELSE CodeUnit[ch]

\* text contains pattern, case-insensitively.
ContainsCI(text, pattern) ==
    \E at \in 0..Len(text) :
        /\ at + Len(pattern) <= Len(text)
        /\ \A j \in DOMAIN pattern : FoldCode(text[at + j]) = FoldCode(pattern[j])

CIEqual(s, t) ==
    /\ Len(s) = Len(t)
    /\ \A j \in DOMAIN s : FoldCode(s[j]) = FoldCode(t[j])

\* s is before t in the case-insensitive order of strings.
CILess(s, t) ==
    \E k \in DOMAIN t :
        /\ \A j \in 1..(k - 1) : j <= Len(s) /\ FoldCode(s[j]) = FoldCode(t[j])
        /\ \/ k = Len(s) + 1
           \/ k <= Len(s) /\ FoldCode(s[k]) < FoldCode(t[k])

\* The value customer c is sorted by is absent.
KeyIsNull(c, field) == field = "lastOrderDate" /\ c[field] = JSNull

\* The sort-key values of a and b, both present, compare equal / in order.
KeyEqual(a, b, field) ==
    IF field \in {"revenue", "orderCount"} THEN a[field] = b[field]
    ELSE IF field = "lastOrderDate" THEN CIEqual(a[field].val, b[field].val)
    ELSE CIEqual(a[field], b[field])

KeyLess(a, b, field) ==
    IF field \in {"revenue", "orderCount"} THEN a[field] < b[field]
    ELSE IF field = "lastOrderDate" THEN CILess(a[field].val, b[field].val)
    ELSE CILess(a[field], b[field])

\* Customer c is one the search text selects.
Selected(c) ==
    \/ QuerySearch = <<>>
    \/ ContainsCI(c.name, QuerySearch)
    \/ ContainsCI(c.email, QuerySearch)

\* The position in the store of the customer with c's id.
StorePosition(c) == CHOOSE i \in DOMAIN mockCustomers : mockCustomers[i].id = c.id

-----------------------------------------------------------------------------
\* C1: the customers that survive the search filter of GET /customers are
\* exactly those whose name or email contains the search text as a
\* case-insensitive substring, and they are the ones totalItems counts; with
\* an empty search text every customer survives.
C1_FilterExact ==
    GotCustomers =>
        /\ \A i \in DOMAIN mockCustomers :
              Selected(mockCustomers[i])
                 <=> (\E k \in DOMAIN filteredCustomers :
                          filteredCustomers[k] = mockCustomers[i])
        /\ Len(filteredCustomers)
              = Cardinality({i \in DOMAIN mockCustomers : Selected(mockCustomers[i])})
        /\ res.json.pagination.totalItems
              = Num(Cardinality({i \in DOMAIN mockCustomers : Selected(mockCustomers[i])}))
        /\ \A k \in DOMAIN res.json.customers :
              \E i \in DOMAIN mockCustomers :
                 /\ mockCustomers[i].id = res.json.customers[k].id
                 /\ Selected(mockCustomers[i])
        /\ QuerySearch = <<>> => Len(filteredCustomers) = Len(mockCustomers)

\* A search in capitals has kept some customers and dropped others, and one
\* of those kept matches in its email only, and only when case is ignored.
C1_Witness ==
    /\ GotCustomers
    /\ QuerySearch = <<"A","L">>
    /\ 0 < Len(filteredCustomers)
    /\ Len(filteredCustomers) < Len(mockCustomers)
    /\ \E k \in DOMAIN filteredCustomers :
          /\ ~ContainsCI(filteredCustomers[k].name, QuerySearch)
          /\ ~Includes(filteredCustomers[k].email, QuerySearch)

\* C2: sorted by a summary field, any two adjacent results whose values are
\* present are in order, ascending under 'asc' and descending under 'desc',
\* strings compared case-insensitively.
C2_SortedByKey ==
    (GotCustomers /\ QuerySortBy \in SummaryFields) =>
        /\ \A k \in 1..(Len(filteredCustomers) - 1) :
              LET a == filteredCustomers[k]
                  b == filteredCustomers[k + 1]
              IN  (~KeyIsNull(a, QuerySortBy) /\ ~KeyIsNull(b, QuerySortBy)) =>
                     IF QueryDescending
                     THEN KeyLess(b, a, QuerySortBy) \/ KeyEqual(a, b, QuerySortBy)
                     ELSE KeyLess(a, b, QuerySortBy) \/ KeyEqual(a, b, QuerySortBy)
        /\ \A k \in 1..(Len(res.json.customers) - 1) :
              LET a == res.json.customers[k]
                  b == res.json.customers[k + 1]
              IN  (~KeyIsNull(a, QuerySortBy) /\ ~KeyIsNull(b, QuerySortBy)) =>
                     IF QueryDescending
                     THEN KeyLess(b, a, QuerySortBy) \/ KeyEqual(a, b, QuerySortBy)
                     ELSE KeyLess(a, b, QuerySortBy) \/ KeyEqual(a, b, QuerySortBy)

\* Sorted by name, descending: two adjacent results are in an order that the
\* code units of their names alone would reverse.
C2_Witness ==
    /\ GotCustomers
    /\ QuerySortBy = "name"
    /\ QueryDescending
    /\ \E k \in 1..(Len(res.json.customers) - 1) :
          /\ CILess(res.json.customers[k + 1].name, res.json.customers[k].name)
          /\ StrLess(res.json.customers[k].name, res.json.customers[k + 1].name)

\* C3: customers whose sort-key value is null come after every customer
\* whose value is present, under 'asc' and under 'desc'.
C3_NullsLast ==
    (GotCustomers /\ QuerySortBy \in SummaryFields) =>
        \A i \in DOMAIN filteredCustomers : \A j \in DOMAIN filteredCustomers :
            (i < j /\ KeyIsNull(filteredCustomers[i], QuerySortBy))
                => KeyIsNull(filteredCustomers[j], QuerySortBy)

\* Sorted by lastOrderDate, descending, with customers that have orders and
\* customers that have none, who stood before them in the store.
C3_Witness ==
    /\ GotCustomers
    /\ QuerySortBy = "lastOrderDate"
    /\ QueryDescending
    /\ \E i \in DOMAIN filteredCustomers : \E j \in DOMAIN filteredCustomers :
          /\ ~KeyIsNull(filteredCustomers[i], "lastOrderDate")
          /\ KeyIsNull(filteredCustomers[j], "lastOrderDate")
          /\ StorePosition(filteredCustomers[j]) < StorePosition(filteredCustomers[i])

\* C4: the sort is stable: two customers whose sort-key values compare equal
\* (or are both null) keep the relative order they have in the store.
C4_Stable ==
    (GotCustomers /\ QuerySortBy \in SummaryFields) =>
        \A i \in DOMAIN filteredCustomers : \A j \in DOMAIN filteredCustomers :
            LET a == filteredCustomers[i]
                b == filteredCustomers[j]
            IN  (/\ i < j
                 /\ \/ KeyIsNull(a, QuerySortBy) /\ KeyIsNull(b, QuerySortBy)
                    \/ /\ ~KeyIsNull(a, QuerySortBy)
                       /\ ~KeyIsNull(b, QuerySortBy)
                       /\ KeyEqual(a, b, QuerySortBy))
                => StorePosition(a) < StorePosition(b)

\* Sorted by name, descending: two customers whose names differ in case only
\* are both in the result, and the sort moved other customers around them.
C4_Witness ==
    /\ GotCustomers
    /\ QuerySortBy = "name"
    /\ QueryDescending
    /\ filteredCustomers # mockCustomers
    /\ \E i \in DOMAIN filteredCustomers : \E j \in DOMAIN filteredCustomers :
          /\ i < j
          /\ filteredCustomers[i].name # filteredCustomers[j].name
          /\ CIEqual(filteredCustomers[i].name, filteredCustomers[j].name)

\* C5: for page >= 1 and limit >= 1 the customers returned are the elements
\* at positions [(page-1)*limit, (page-1)*limit + limit) of the filtered and
\* sorted list; every page before the last holds limit items, and a page
\* beyond the last is an empty list under status 200.
C5_Pagination ==
    (GotCustomers /\ QueryPage >= 1 /\ QueryLimit >= 1) =>
        LET first == (QueryPage - 1) * QueryLimit
            n     == Len(filteredCustomers)
            count == IF first >= n THEN 0
                     ELSE IF n - first < QueryLimit THEN n - first
                     ELSE QueryLimit
        IN  /\ res.status = 200
            /\ Len(res.json.customers) = count
            /\ \A k \in 1..count : \A field \in SummaryFields :
                  res.json.customers[k][field] = filteredCustomers[first + k][field]
            /\ QueryPage * QueryLimit < n => Len(res.json.customers) = QueryLimit
            /\ first >= n => res.json.customers = <<>>

\* The second of three pages: five customers out of twelve.
C5_Witness ==
    /\ GotCustomers
    /\ QueryPage = 2
    /\ QueryLimit = 5
    /\ Len(filteredCustomers) = 12
    /\ Len(res.json.customers) = 5
    /\ res.json.customers[1].id = filteredCustomers[6].id

\* A page beyond the last one of a list that is not empty.
C5_BeyondLast ==
    /\ GotCustomers
    /\ QueryPage = 3
    /\ QueryLimit = 5
    /\ Len(filteredCustomers) \in 1..10
    /\ res.status = 200
    /\ res.json.customers = <<>>

\* C6: totalItems is the number of customers after filtering, before
\* pagination, and totalPages is ceil(totalItems / limit); page 1 with limit 5
\* of a store of 12 customers and no search text holds 5 items, the ones of
\* highest revenue when sorted by revenue descending, with totalItems 12 and
\* totalPages 3.
C6_Totals ==
    (GotCustomers /\ QueryLimit >= 1) =>
        LET total == Cardinality({i \in DOMAIN mockCustomers :
                                     Selected(mockCustomers[i])})
            pages == CHOOSE n \in 0..total :
                        /\ n * QueryLimit >= total
                        /\ n = 0 \/ (n - 1) * QueryLimit < total
            page  == res.json.customers
        IN  /\ res.json.pagination.totalItems = Num(total)
            /\ res.json.pagination.totalPages = Num(pages)
            /\ (/\ Len(mockCustomers) = 12
                /\ QuerySearch = <<>>
                /\ QueryPage = 1
                /\ QueryLimit = 5)
               => /\ Len(page) = 5
                  /\ res.json.pagination.totalItems = Num(12)
                  /\ res.json.pagination.totalPages = Num(3)
                  /\ (QuerySortBy = "revenue" /\ QueryDescending) =>
                        \A k \in DOMAIN page : \A i \in DOMAIN mockCustomers :
                            \/ \E m \in DOMAIN page : page[m].id = mockCustomers[i].id
                            \/ mockCustomers[i].revenue <= page[k].revenue

\* The query {page 1, limit 5, sortBy revenue, order desc, no search} has been
\* answered from a store of 12 customers, not all of the same revenue.
C6_Witness ==
    /\ GotCustomers
    /\ Len(mockCustomers) = 12
    /\ QuerySearch = <<>>
    /\ QueryPage = 1
    /\ QueryLimit = 5
    /\ QuerySortBy = "revenue"
    /\ QueryDescending
    /\ res.json.pagination.totalPages = Num(3)
    /\ res.json.customers[1].revenue > res.json.customers[5].revenue

\* C7: every customer returned by GET /customers is the stored customer
\* without its _orders: that field is not there, every other field is, with
\* the stored value.
C7_SummaryShape ==
    GotCustomers =>
        \A k \in DOMAIN res.json.customers :
            LET summary == res.json.customers[k]
            IN  /\ "_orders" \notin DOMAIN summary
                /\ \E i \in DOMAIN mockCustomers :
                      /\ mockCustomers[i].id = summary.id
                      /\ DOMAIN summary = DOMAIN mockCustomers[i] \ {"_orders"}
                      /\ \A field \in DOMAIN summary :
                            summary[field] = mockCustomers[i][field]

\* A customer who owns orders has been returned.
C7_Witness ==
    /\ GotCustomers
    /\ \E k \in DOMAIN res.json.customers : \E i \in DOMAIN mockCustomers :
          /\ mockCustomers[i].id = res.json.customers[k].id
          /\ mockCustomers[i]._orders # <<>>

-----------------------------------------------------------------------------
\* The three statuses a customer may have, as JSON strings.
Active == Str(<<"a","c","t","i","v","e">>)
Churned == Str(<<"c","h","u","r","n","e","d">>)
Prospect == Str(<<"p","r","o","s","p","e","c","t">>)

\* C8: GET /customers is a pure read: the step that answers it leaves
\* mockCustomers (members, order, every field) as it was, and the same GET
\* repeated with nothing in between gets the same response.
C8_PureRead ==
    [][(req'.method = "GET" /\ req'.url = CustomersUrl) =>
          /\ mockCustomers' = mockCustomers
          /\ req' = req => res' = res]_vars

\* A GET without search text has been answered whose sort put the customers
\* in another order than the store's, from a store a fallback customer was
\* added to.
C8_Witness ==
    /\ GotCustomers
    /\ QuerySearch = <<>>
    /\ Len(filteredCustomers) = Len(mockCustomers)
    /\ filteredCustomers # mockCustomers
    /\ Len(mockCustomers) > Len(knownCustomerIds) + NumRandom

\* C9: PATCH /customers with a status that is not active, churned or prospect
\* is answered 400 and leaves every customer as it was, whether customerId
\* names a customer or not.
C9_InvalidStatus ==
    [][(/\ req'.method = "PATCH"
        /\ req'.url = CustomersUrl
        /\ req'.body.status \notin {Active, Churned, Prospect}) =>
          /\ res'.status = 400
          /\ mockCustomers' = mockCustomers]_vars

\* A PATCH naming an existing customer and the status 'deleted' has been
\* answered 400.
C9_Witness ==
    /\ req.method = "PATCH"
    /\ req.url = CustomersUrl
    /\ req.body.status = Str(<<"d","e","l","e","t","e","d">>)
    /\ \E i \in DOMAIN mockCustomers : req.body.customerId = Str(mockCustomers[i].id)
    /\ res.status = 400

\* C10: PATCH /customers with a valid status and a customerId: when a customer
\* has that id the answer is 200 and that customer's status becomes the one
\* requested, every other field and customer staying as it was; when none
\* has, the answer is 404 and the store stays as it was.
C10_ValidStatus ==
    [][(/\ req'.method = "PATCH"
        /\ req'.url = CustomersUrl
        /\ req'.body.status \in {Active, Churned, Prospect}
        /\ req'.body.customerId \notin {JSUndefined, JSNull, Str(<<>>), Num(0)}) =>
          IF \E i \in DOMAIN mockCustomers :
                req'.body.customerId = Str(mockCustomers[i].id)
          THEN /\ res'.status = 200
               /\ Len(mockCustomers') = Len(mockCustomers)
               /\ \A i \in DOMAIN mockCustomers :
                     mockCustomers'[i] =
                        IF req'.body.customerId = Str(mockCustomers[i].id)
                        THEN [mockCustomers[i] EXCEPT !.status = req'.body.status.val]
                        ELSE mockCustomers[i]
          ELSE /\ res'.status = 404
               /\ mockCustomers' = mockCustomers]_vars

\* A PATCH has been answered 200: the customer it names has the status
\* requested, and another customer has another one.
C10_Witness ==
    /\ req.method = "PATCH"
    /\ req.url = CustomersUrl
    /\ res.status = 200
    /\ \E i \in DOMAIN mockCustomers : \E j \in DOMAIN mockCustomers :
          /\ req.body.customerId = Str(mockCustomers[i].id)
          /\ Str(mockCustomers[i].status) = req.body.status
          /\ mockCustomers[j].status # mockCustomers[i].status

\* A PATCH naming an id no customer has has been answered 404.
C10_NotFound ==
    /\ req.method = "PATCH"
    /\ req.url = CustomersUrl
    /\ res.status = 404
    /\ req.body.customerId = Str(<<"c","u","s","t","-","1">>)
    /\ \A i \in DOMAIN mockCustomers : req.body.customerId # Str(mockCustomers[i].id)

-----------------------------------------------------------------------------
(* The orders endpoint: what its requests name, and what they find.        *)

\* The request answered, or being answered in the next state, is a GET or a
\* PATCH of /api/customers/{id}/orders.
IsOrders(r, method) == r.method = method /\ r.url = OrdersUrl

\* The places <<c, o, i>> of the store's items: customer, order, item.
Places(store) ==
    {<<c, o, i>> \in (DOMAIN store) \X (1..MaxOrders) \X (1..MaxItems) :
        /\ o \in DOMAIN store[c]._orders
        /\ i \in DOMAIN store[c]._orders[o].items}

ItemAt(store, p) == store[p[1]]._orders[p[2]].items[p[3]]

\* The places a PATCH names: the item with that id, in the order with that
\* id, of the customer with that id.
Addressed(store, r) ==
    {p \in Places(store) :
        /\ store[p[1]].id = r.id
        /\ Str(store[p[1]]._orders[p[2]].orderId) = r.body.orderId
        /\ Str(ItemAt(store, p).orderItemId) = r.body.orderItemId}

\* A value is a number that is finite and not negative.
IsMeasure(v) ==
    /\ v.type = "number"
    /\ DOMAIN v = {"type", "val"}
    /\ v.val >= 0

\* The field of a customSize sent, undefined when it is missing.
SizeField(size, k) ==
    IF size.type = "object" /\ k \in DOMAIN size THEN size[k] ELSE JSUndefined

SizeFields == {"chest", "waist", "hips"}

\* The body names an order and an item by text, and three numbers.
WellFormed(body) ==
    /\ body.orderId.type = "string" /\ body.orderId.val # <<>>
    /\ body.orderItemId.type = "string" /\ body.orderItemId.val # <<>>
    /\ \A k \in SizeFields : SizeField(body.customSize, k).type = "number"

\* The measurements a well-formed body asks for.
Asked(body) == [k \in SizeFields |-> body.customSize[k].val]

\* C11: a PATCH of /customers/{id}/orders answered 200 has replaced the
\* customSize of the one item its customer id, orderId and orderItemId name by
\* the measurements sent; that item's other fields, its siblings, the order's
\* totalAmount, the customer's revenue and every other order and customer are
\* as they were.
C11_SizeFrame ==
    [][(IsOrders(req', "PATCH") /\ res'.status = 200) =>
          \E p \in Addressed(mockCustomers, req') :
              /\ Addressed(mockCustomers, req') = {p}
              /\ mockCustomers' =
                    [mockCustomers EXCEPT
                        ![p[1]]._orders[p[2]].items[p[3]].customSize =
                            Asked(req'.body)]]_vars

\* A PATCH has been answered 200 for an item that has a sibling with other
\* measurements, in an order of a customer with another order.
C11_Witness ==
    /\ IsOrders(req, "PATCH")
    /\ res.status = 200
    /\ \E p \in Addressed(mockCustomers, req) : \E q \in Places(mockCustomers) :
          /\ ItemAt(mockCustomers, p).customSize = Asked(req.body)
          /\ q[1] = p[1] /\ q[2] = p[2] /\ q[3] # p[3]
          /\ ItemAt(mockCustomers, q).customSize # Asked(req.body)
          /\ Len(mockCustomers[p[1]]._orders) > 1

\* C12: a PATCH of /customers/{id}/orders whose customSize lacks chest, waist
\* or hips, or holds for one of them a value that is not a number, or a
\* negative number, or a number that is not finite, is answered 400 and
\* leaves the store as it was.
C12_InvalidSize ==
    [][(/\ IsOrders(req', "PATCH")
        /\ \E k \in SizeFields : ~IsMeasure(SizeField(req'.body.customSize, k))) =>
          /\ res'.status = 400
          /\ mockCustomers' = mockCustomers]_vars

\* C12, of what is not a number: a PATCH whose customSize lacks chest, waist
\* or hips, or holds for one of them a value that is not a number, is
\* answered 400 and leaves the store as it was.
C12_NotNumbers ==
    [][(/\ IsOrders(req', "PATCH")
        /\ \E k \in SizeFields :
              SizeField(req'.body.customSize, k).type # "number") =>
          /\ res'.status = 400
          /\ mockCustomers' = mockCustomers]_vars

\* A PATCH naming an item of the store with a negative chest has been
\* answered.
C12_NegativeSent ==
    /\ IsOrders(req, "PATCH")
    /\ req.body.customSize = Negative
    /\ Addressed(mockCustomers, req) # {}

\* C13: a PATCH of /customers/{id}/orders with a well-formed body that names
\* no item (no customer has the id, or the customer no order with the
\* orderId, or the order no item with the orderItemId) is answered 404; the
\* store is as it was: no customer is created, and no item of another order
\* or customer is changed.
C13_NotFound ==
    [][(/\ IsOrders(req', "PATCH")
        /\ WellFormed(req'.body)
        /\ Addressed(mockCustomers, req') = {}) =>
          /\ res'.status = 404
          /\ mockCustomers' = mockCustomers
          /\ faker' = faker]_vars

\* A PATCH has been answered 404 that names an order of its customer and an
\* item of another order of the same customer.
C13_Witness ==
    /\ IsOrders(req, "PATCH")
    /\ res.status = 404
    /\ WellFormed(req.body)
    /\ \E p \in Places(mockCustomers) : \E q \in Places(mockCustomers) :
          /\ mockCustomers[p[1]].id = req.id
          /\ Str(mockCustomers[p[1]]._orders[p[2]].orderId) = req.body.orderId
          /\ q[1] = p[1] /\ q[2] # p[2]
          /\ Str(ItemAt(mockCustomers, q).orderItemId) = req.body.orderItemId

\* A PATCH has been answered 404 whose customer id no customer has.
C13_UnknownCustomer ==
    /\ IsOrders(req, "PATCH")
    /\ res.status = 404
    /\ WellFormed(req.body)
    /\ \A c \in DOMAIN mockCustomers : mockCustomers[c].id # req.id

\* A PATCH has been answered 404 that names an item of another customer.
C13_OtherCustomer ==
    /\ IsOrders(req, "PATCH")
    /\ res.status = 404
    /\ \E q \in Places(mockCustomers) :
          /\ mockCustomers[q[1]].id # req.id
          /\ Str(ItemAt(mockCustomers, q).orderItemId) = req.body.orderItemId

\* The positions of the customers with an id.
Holders(store, id) == {c \in DOMAIN store : store[c].id = id}

\* C14: getCustomerById called with an id no customer has appends one
\* customer with that id; called again with it, it returns that record and
\* appends nothing: after any call exactly one customer has the id, and the
\* store has grown by one at the first call only.
C14_GetOrCreateOnce ==
    [][IsOrders(req', "GET") =>
          /\ Cardinality(Holders(mockCustomers', req'.id)) = 1
          /\ IF Holders(mockCustomers, req'.id) = {}
             THEN /\ Len(mockCustomers') = Len(mockCustomers) + 1
                  /\ mockCustomers'[Len(mockCustomers')].id = req'.id
             ELSE /\ mockCustomers' = mockCustomers
                  /\ \A c \in Holders(mockCustomers, req'.id) :
                        res'.json.orders = mockCustomers[c]._orders]_vars

\* The orders of an id no generated customer has have been asked for again:
\* its customer is in the store and another customer was created after it.
C14_Witness ==
    /\ IsOrders(req, "GET")
    /\ res.status = 200
    /\ \E c \in Holders(mockCustomers, req.id) :
          /\ c > Len(knownCustomerIds) + NumRandom
          /\ c < Len(mockCustomers)
          /\ res.json.orders = mockCustomers[c]._orders

\* C15: GET /customers/{id}/orders is answered 200, never 404.  For the id of
\* a customer the answer holds that customer's orders and the store is as it
\* was; for another id a customer with that id is appended to the store, the
\* customers before it as they were, and the answer holds the new
\* customer's orders.  GET /customers without search text counts every
\* customer of the store, the appended ones too.
C15_OrdersNever404 ==
    [][/\ IsOrders(req', "GET") =>
            /\ res'.status = 200
            /\ IF Holders(mockCustomers, req'.id) # {}
               THEN /\ mockCustomers' = mockCustomers
                    /\ \E c \in Holders(mockCustomers, req'.id) :
                          res'.json.orders = mockCustomers[c]._orders
               ELSE /\ SubSeq(mockCustomers', 1, Len(mockCustomers)) = mockCustomers
                    /\ Len(mockCustomers') = Len(mockCustomers) + 1
                    /\ mockCustomers'[Len(mockCustomers')].id = req'.id
                    /\ res'.json.orders = mockCustomers'[Len(mockCustomers')]._orders
       /\ (req'.method = "GET" /\ req'.url = CustomersUrl /\ req'.query = NoQuery) =>
            res'.json.pagination.totalItems = Num(Len(mockCustomers'))]_vars

\* After the orders of two ids that no generated customer has were asked
\* for, GET /customers counts two customers more than were generated.
C15_Witness ==
    /\ GotCustomers
    /\ req.query = NoQuery
    /\ res.json.pagination.totalItems = Num(Len(knownCustomerIds) + NumRandom + 2)
    /\ \E c \in DOMAIN mockCustomers : mockCustomers[c].id = <<"c","u","s","t","-","1">>
    /\ \E c \in DOMAIN mockCustomers : mockCustomers[c].id = <<"c","u","s","t","-","2">>

\* The step is a PATCH answered 200 that names the item at place p.
Measures(p) ==
    /\ IsOrders(req', "PATCH")
    /\ res'.status = 200
    /\ p \in Addressed(mockCustomers, req')

\* C16: measurements are read as written.  A PATCH of /customers/{id}/orders
\* answered 200 answers with the item holding the measurements sent and
\* leaves the order's totalAmount as it was; every item holds the
\* measurements of the last PATCH answered 200 that named it, through every
\* other request; and GET /customers/{id}/orders answers with the orders as
\* the store holds them.
C16_ReadYourWrites ==
    [][/\ \A p \in Places(mockCustomers) :
            /\ p \in Places(mockCustomers')
            /\ ItemAt(mockCustomers', p).customSize =
                  IF Measures(p) THEN Asked(req'.body)
                  ELSE ItemAt(mockCustomers, p).customSize
            /\ Measures(p) =>
                  /\ res'.json.updatedItem.orderItemId =
                        ItemAt(mockCustomers, p).orderItemId
                  /\ res'.json.updatedItem.customSize = Asked(req'.body)
                  /\ mockCustomers'[p[1]]._orders[p[2]].totalAmount =
                        mockCustomers[p[1]]._orders[p[2]].totalAmount
       /\ IsOrders(req', "GET") =>
            \E c \in Holders(mockCustomers', req'.id) :
                res'.json.orders = mockCustomers'[c]._orders]_vars

\* GET /customers/{id}/orders has been answered with an item of the
\* measurements 40, 32, 38 sent by an earlier PATCH, in an order whose
\* totalAmount is the sum of its two items' prices.
C16_Witness ==
    /\ IsOrders(req, "GET")
    /\ res.status = 200
    /\ \E o \in DOMAIN res.json.orders :
          /\ Len(res.json.orders[o].items) = 2
          /\ res.json.orders[o].items[1].customSize = Asked([customSize |-> Measured])
          /\ res.json.orders[o].totalAmount =
                res.json.orders[o].items[1].price + res.json.orders[o].items[2].price

\* The places <<c, o>> of the store's orders: customer, order.
OrderPlaces(store) ==
    {<<c, o>> \in (DOMAIN store) \X (1..MaxOrders) :
        o \in DOMAIN store[c]._orders}

OrderAt(store, q) == store[q[1]]._orders[q[2]]

\* The customers, orders and items of a store, each with the fields that are
\* set at creation: all but a customer's status and an item's customSize.
Creations(store) ==
    {[id |-> store[c].id, name |-> store[c].name, email |-> store[c].email,
      revenue |-> store[c].revenue, createdAt |-> store[c].createdAt,
      orderCount |-> store[c].orderCount,
      lastOrderDate |-> store[c].lastOrderDate] : c \in DOMAIN store}
    \cup {[id |-> store[q[1]].id, orderId |-> OrderAt(store, q).orderId,
           orderDate |-> OrderAt(store, q).orderDate,
           totalAmount |-> OrderAt(store, q).totalAmount] :
             q \in OrderPlaces(store)}
    \cup {[id |-> store[p[1]].id, orderId |-> store[p[1]]._orders[p[2]].orderId,
           orderItemId |-> ItemAt(store, p).orderItemId,
           itemName |-> ItemAt(store, p).itemName,
           category |-> ItemAt(store, p).category,
           price |-> ItemAt(store, p).price] : p \in Places(store)}

\* C17: no request removes a customer, an order or an item, and every field
\* of them but a customer's status and an item's customSize keeps the value
\* it was created with: id, name, email, revenue, createdAt, orderCount,
\* lastOrderDate; orderId, orderDate, totalAmount; orderItemId, itemName,
\* category, price.
C17_CreatedFieldsKept ==
    [][Creations(mockCustomers) \subseteq Creations(mockCustomers')]_vars

\* A status has been set in a store that holds a customer created for an id
\* asked for and an item measured by a PATCH.
C17_Witness ==
    /\ req.method = "PATCH"
    /\ req.url = CustomersUrl
    /\ res.status = 200
    /\ Len(mockCustomers) > Len(knownCustomerIds) + NumRandom
    /\ \E p \in Places(mockCustomers) :
          ItemAt(mockCustomers, p).customSize = Asked([customSize |-> Measured])

\* The sum of field k over the first n elements of arr.
RECURSIVE Total(_, _, _)
Total(arr, k, n) == IF n = 0 THEN 0 ELSE Total(arr, k, n - 1) + arr[n][k]

\* C18: in every state every order's totalAmount is the sum of the prices of
\* its items.
C18_TotalIsSum ==
    \A q \in OrderPlaces(mockCustomers) :
        OrderAt(mockCustomers, q).totalAmount =
            Total(OrderAt(mockCustomers, q).items, "price",
                  Len(OrderAt(mockCustomers, q).items))

\* An order of two items of different prices, of a customer created for an
\* id asked for, after a PATCH has measured one of its items.
C18_Witness ==
    \E p \in Places(mockCustomers) :
        /\ p[1] > Len(knownCustomerIds) + NumRandom
        /\ ItemAt(mockCustomers, p).customSize = Asked([customSize |-> Measured])
        /\ Len(OrderAt(mockCustomers, p).items) = 2
        /\ OrderAt(mockCustomers, p).items[1].price #
              OrderAt(mockCustomers, p).items[2].price

\* The day an orderDate stands for.
DigitOf(c) == CHOOSE n \in 0..9 : Digits[n + 1] = c
DayOf(date) == (DigitOf(date[1]) * 100) + (DigitOf(date[2]) * 10) + DigitOf(date[3])

\* C19: in every state every customer's orderCount is the number of its
\* orders, its revenue the sum of their totalAmount, and its lastOrderDate
\* the orderDate of an order none of its orders is later than, or null when
\* it has no orders.
C19_Aggregates ==
    \A c \in DOMAIN mockCustomers :
        LET orders == mockCustomers[c]._orders
        IN  /\ mockCustomers[c].orderCount = Len(orders)
            /\ mockCustomers[c].revenue = Total(orders, "totalAmount", Len(orders))
            /\ IF orders = <<>>
               THEN mockCustomers[c].lastOrderDate = JSNull
               ELSE \E o \in DOMAIN orders :
                       /\ mockCustomers[c].lastOrderDate = Str(orders[o].orderDate)
                       /\ \A k \in DOMAIN orders :
                             DayOf(orders[k].orderDate) <= DayOf(orders[o].orderDate)

\* A customer created for an id asked for has two orders of different dates,
\* and an item measured by a PATCH; another such customer has no orders.
C19_Witness ==
    /\ \E p \in Places(mockCustomers) :
          /\ p[1] > Len(knownCustomerIds) + NumRandom
          /\ ItemAt(mockCustomers, p).customSize = Asked([customSize |-> Measured])
          /\ Len(mockCustomers[p[1]]._orders) = 2
          /\ mockCustomers[p[1]]._orders[1].orderDate #
                mockCustomers[p[1]]._orders[2].orderDate
    /\ \E c \in DOMAIN mockCustomers :
          /\ c > Len(knownCustomerIds) + NumRandom
          /\ mockCustomers[c]._orders = <<>>

\* C20: in every state no two customers have the same id, no two orders of
\* the store the same orderId (so no order is held by two customers), and no
\* two items of the store the same orderItemId: there are as many ids as
\* customers, as orders, as items.
C20_UniqueIds ==
    /\ Cardinality({mockCustomers[c].id : c \in DOMAIN mockCustomers})
          = Len(mockCustomers)
    /\ Cardinality({OrderAt(mockCustomers, q).orderId :
                      q \in OrderPlaces(mockCustomers)})
          = Cardinality(OrderPlaces(mockCustomers))
    /\ Cardinality({ItemAt(mockCustomers, p).orderItemId :
                      p \in Places(mockCustomers)})
          = Cardinality(Places(mockCustomers))

\* The orders of a created customer have been asked for again, in a store
\* that holds two created customers with orders.
C20_Witness ==
    /\ IsOrders(req, "GET")
    /\ \E c \in Holders(mockCustomers, req.id) : \E d \in DOMAIN mockCustomers :
          /\ c > Len(knownCustomerIds) + NumRandom
          /\ d > c
          /\ mockCustomers[c]._orders # <<>>
          /\ mockCustomers[d]._orders # <<>>

-----------------------------------------------------------------------------
\* C21: in every state every customer's status is active, churned or
\* prospect, whatever the bodies of the requests.
C21_StatusValid ==
    \A c \in DOMAIN mockCustomers :
        Str(mockCustomers[c].status) \in {Active, Churned, Prospect}

\* A PATCH has set a status, after PATCHes with other values of status were
\* refused, and the store holds customers of all three statuses.
C21_Witness ==
    /\ req.method = "PATCH"
    /\ req.url = CustomersUrl
    /\ res.status = 200
    /\ \E c \in DOMAIN mockCustomers :
          /\ Str(mockCustomers[c].id) = req.body.customerId
          /\ Str(mockCustomers[c].status) = req.body.status
    /\ \A status \in {Active, Churned, Prospect} :
          \E c \in DOMAIN mockCustomers : Str(mockCustomers[c].status) = status

\* C22: in every state every item's customSize holds chest, waist and hips,
\* each a number that is not negative.
C22_SizesValid ==
    \A p \in Places(mockCustomers) :
        /\ DOMAIN ItemAt(mockCustomers, p).customSize = SizeFields
        /\ \A k \in SizeFields : ItemAt(mockCustomers, p).customSize[k] >= 0

\* The position in a list of customers of the one with c's id.
PositionIn(list, c) == CHOOSE k \in DOMAIN list : list[k].id = c.id

\* The list GET /customers makes of the query answered, had its order been
\* 'asc'.
Ascending ==
    handlerGET(mockCustomers, [req.query EXCEPT !.order = Asc]).filteredCustomers

\* a and b have equal sort-key values: both null, or both present and equal.
SameKey(a, b, field) ==
    \/ KeyIsNull(a, field) /\ KeyIsNull(b, field)
    \/ ~KeyIsNull(a, field) /\ ~KeyIsNull(b, field) /\ KeyEqual(a, b, field)

\* desc holds the customers of asc, those of equal key values in the same
\* order and the others in the opposite order.
ReversedButTies(asc, desc, field) ==
    /\ Len(desc) = Len(asc)
    /\ \A i \in DOMAIN asc : \A j \in DOMAIN asc :
          i < j =>
             IF SameKey(asc[i], asc[j], field)
             THEN PositionIn(desc, asc[i]) < PositionIn(desc, asc[j])
             ELSE PositionIn(desc, asc[i]) > PositionIn(desc, asc[j])

\* The same, but that a customer whose key is null stays behind the
\* customers before it.
ReversedButTiesAndNulls(asc, desc, field) ==
    /\ Len(desc) = Len(asc)
    /\ \A i \in DOMAIN asc : \A j \in DOMAIN asc :
          i < j =>
             IF SameKey(asc[i], asc[j], field) \/ KeyIsNull(asc[j], field)
             THEN PositionIn(desc, asc[i]) < PositionIn(desc, asc[j])
             ELSE PositionIn(desc, asc[i]) > PositionIn(desc, asc[j])

\* C23: sorted by a summary field, the list under 'desc' is the list under
\* 'asc' reversed, but for the customers of equal key values, who keep their
\* relative order.
C23_DescReversesAsc ==
    (GotCustomers /\ QueryDescending /\ QuerySortBy \in SummaryFields) =>
        ReversedButTies(Ascending, filteredCustomers, QuerySortBy)

\* C23, amended: sorted by a summary field, the list under 'desc' is the list
\* under 'asc' with the customers whose key is present reversed, but for the
\* customers of equal key values, who keep their relative order; the
\* customers whose key is null are last in both, in the same order.
C23_DescReversesPresent ==
    (GotCustomers /\ QueryDescending /\ QuerySortBy \in SummaryFields) =>
        ReversedButTiesAndNulls(Ascending, filteredCustomers, QuerySortBy)

\* Sorted by lastOrderDate, descending: two customers of one date, two of
\* different dates and one without orders are in the list.
C23_Witness ==
    /\ GotCustomers
    /\ QueryDescending
    /\ QuerySortBy = "lastOrderDate"
    /\ \E i \in DOMAIN filteredCustomers : \E j \in DOMAIN filteredCustomers :
       \E k \in DOMAIN filteredCustomers :
          /\ i < j /\ j < k
          /\ ~KeyIsNull(filteredCustomers[j], "lastOrderDate")
          /\ ~KeyEqual(filteredCustomers[i], filteredCustomers[j], "lastOrderDate")
          /\ KeyIsNull(filteredCustomers[k], "lastOrderDate")
    /\ \E i \in DOMAIN filteredCustomers : \E j \in DOMAIN filteredCustomers :
          /\ i < j
          /\ ~KeyIsNull(filteredCustomers[j], "lastOrderDate")
          /\ KeyEqual(filteredCustomers[i], filteredCustomers[j], "lastOrderDate")

\* C24: GET /customers with a sortBy that is no field of a customer is
\* answered 200 with the customers the search selects in the order of the
\* store, under 'asc' and under 'desc'.
C24_UnknownSortKey ==
    (GotCustomers /\ QuerySortBy \notin SummaryFields \cup {"_orders"}) =>
        /\ res.status = 200
        /\ \A c \in DOMAIN mockCustomers :
              Selected(mockCustomers[c]) <=>
                 \E k \in DOMAIN filteredCustomers :
                    filteredCustomers[k] = mockCustomers[c]
        /\ \A i \in DOMAIN filteredCustomers : \A j \in DOMAIN filteredCustomers :
              i < j => StorePosition(filteredCustomers[i])
                          < StorePosition(filteredCustomers[j])

\* Sorted by 'rank', descending, with a search text that selects customers
\* whose names are not in order.
C24_Witness ==
    /\ GotCustomers
    /\ QuerySortBy = "rank"
    /\ QueryDescending
    /\ QuerySearch # <<>>
    /\ \E i \in DOMAIN filteredCustomers : \E j \in DOMAIN filteredCustomers :
          /\ i < j
          /\ CILess(filteredCustomers[j].name, filteredCustomers[i].name)
    /\ \E i \in DOMAIN filteredCustomers : \E j \in DOMAIN filteredCustomers :
          /\ i < j
          /\ CILess(filteredCustomers[i].name, filteredCustomers[j].name)

\* The customer createCustomerWithId makes for an id when faker is in the
\* state a seed leaves it in.
FallbackFrom(seed, now, id) ==
    createCustomerWithId([x |-> seed, uuids |-> 0], now, id,
        Str(<<"F","a","l","l","b","a","c","k"," ","C","u","s","t","o","m","e","r">>),
        Str(<<"f","a","l","l","b","a","c","k","@",
              "e","x","a","m","p","l","e",".","c","o","m">>)).val

\* C25: the customer created for an id no customer has is a function of the
\* id alone: it is the customer that would have been created for that id in
\* any other state of the generator, whatever was generated before.
C25_DeterministicInId ==
    [][(IsOrders(req', "GET") /\ Holders(mockCustomers, req'.id) = {}) =>
          \A seed \in 1..NumSeeds :
              mockCustomers'[Len(mockCustomers')] = FallbackFrom(seed, today, req'.id)]_vars

-----------------------------------------------------------------------------
(* Requests in flight.  A fetch call puts a message on the network; the    *)
(* server takes one message at a time and runs its handler from the        *)
(* request to the response (the handlers are synchronous functions: they   *)
(* return before the next message is taken); the response waits on the     *)
(* network for the caller.                                                 *)

\* The least number that names no message on the network, nor the
\* controller the table holds.
FreshId ==
    LET used == {m.id : m \in network} \cup {customerTable.abortControllerRef}
    IN  CHOOSE k \in 1..(Cardinality(used) + 1) :
            k \notin used /\ \A j \in 1..(k - 1) : j \in used

\* fetch(url, init): the message of a call.
Message(k, from, r) ==
    [id |-> k, from |-> from, req |-> r, aborted |-> FALSE, res |-> NoRes]

\* handler(req, res) of pages/api/customers.ts
handlerCustomers(store, f, r) ==
    IF r.method = "GET"
    THEN [mockCustomers |-> handlerGET(store, r.query).mockCustomers,
          faker |-> f,
          res |-> handlerGET(store, r.query).res]
    ELSE IF r.method = "PATCH"
    THEN [mockCustomers |-> handlerPATCH(store, r.body).mockCustomers,
          faker |-> f,
          res |-> handlerPATCH(store, r.body).res]
    ELSE [mockCustomers |-> store,
          faker |-> f,
          res |-> [status |-> 405, allow |-> <<"GET", "PATCH">>]]

\* The GET branch of pages/api/customers/[id]/orders.ts
OrdersOf(got) ==
    [mockCustomers |-> got.mockCustomers,
     faker |-> got.faker,
     res |-> [status |-> 200, json |-> [orders |-> got.customer._orders]]]

\* handler(req, res) of pages/api/customers/[id]/orders.ts
handlerOrders(store, f, now, r) ==
    IF r.method = "GET"
    THEN OrdersOf(getCustomerById(store, f, now, r.id))
    ELSE IF r.method = "PATCH"
    THEN handlerOrdersPATCH(store, f, now, r.id, r.body)
    ELSE [mockCustomers |-> store,
          faker |-> f,
          res |-> [status |-> 405, allow |-> <<"GET", "PATCH">>]]

\* The route of a request, and its handler run on the store.
Answer(store, f, now, r) ==
    IF r.url = CustomersUrl
    THEN handlerCustomers(store, f, r)
    ELSE handlerOrders(store, f, now, r)

\* What Handle leaves of the store when the handler's writes are dropped.
StoreKept(store, out) == store

\* What Handle leaves of the store: the array as the handler left it.
StoreWritten(store, out) == out.mockCustomers

\* The message with the response written to it.
Answered(m, out) == [m EXCEPT !.res = out.res]

HandleTo(m, out) ==
    /\ mockCustomers' = StoreWritten(mockCustomers, out)
    /\ faker' = out.faker
    /\ network' = (network \ {m}) \cup {Answered(m, out)}

\* The server answers one message that waits for it.
Handle(m) ==
    /\ m \in network
    /\ m.res = NoRes
    /\ ~m.aborted
    /\ HandleTo(m, Answer(mockCustomers, faker, today, m.req))
    /\ UNCHANGED <<today, req, res, filteredCustomers, customerTable, ordersTable>>

-----------------------------------------------------------------------------
(* Several clients at once: requests are sent while others wait, and are   *)
(* answered in any order.                                                  *)

\* The most requests on the network at once.
MaxInFlight == 3

Remeasured == Object(Num(41), Num(33), Num(39))

\* The requests sent at once: the status of one known customer and of a
\* customer that is not in the store, the orders of that customer, and the
\* measurements of the first item of the known customer's first order.
ConcurrentRequests(store) ==
    {[method |-> "PATCH", url |-> CustomersUrl,
      body |-> [customerId |-> Str(knownCustomerIds[1]), status |-> status]] :
        status \in {Churned, Prospect}}
    \cup {[method |-> "PATCH", url |-> CustomersUrl,
           body |-> [customerId |-> Str(<<"c","u","s","t","-","1">>),
                     status |-> Churned]]}
    \cup {[method |-> "GET", url |-> OrdersUrl, id |-> <<"c","u","s","t","-","1">>]}
    \cup {[method |-> "PATCH", url |-> OrdersUrl, id |-> store[c].id,
           body |-> BodyOf(store[c]._orders[1], size)] :
             c \in {c \in DOMAIN store : store[c].id = knownCustomerIds[1]
                                           /\ store[c]._orders # <<>>},
             size \in {Measured, Remeasured}}

\* A client sends a request.
Send(r) ==
    /\ Cardinality(network) < MaxInFlight
    /\ \A m \in network : m.from = "client"
    /\ customerTable = CustomerTableState
    /\ network' = network \cup {Message(FreshId, "client", r)}
    /\ UNCHANGED <<mockCustomers, faker, today, req, res, filteredCustomers,
                   customerTable, ordersTable>>

\* The clients take the responses once every request sent is answered.
Receive ==
    /\ network # {}
    /\ \A m \in network : m.from = "client" /\ m.res # NoRes
    /\ network' = {}
    /\ UNCHANGED <<mockCustomers, faker, today, req, res, filteredCustomers,
                   customerTable, ordersTable>>

NextConcurrent ==
    \/ \E r \in ConcurrentRequests(mockCustomers) : Send(r)
    \/ \E m \in network : Handle(m)
    \/ Receive

SpecConcurrent == Init /\ [][NextConcurrent]_vars

-----------------------------------------------------------------------------
(* C26 *)

\* The messages answered 200 to a PATCH of a route.
Succeeded(url) ==
    {m \in network : /\ m.req.method = "PATCH"
                     /\ m.req.url = url
                     /\ m.res.status = 200}

\* C26: requests are applied to the store one after another, each as a
\* whole, so no PATCH answered 200 is lost.  Among requests sent at once and
\* answered in any order, a customer named by PATCHes answered 200 has the
\* status one of them sent, an item named by PATCHes answered 200 has the
\* measurements one of them sent, and each such PATCH left every customer and
\* item it does not name as the one before it left them: the step that
\* answers a message changes the store as its handler alone does.
C26_NoLostPatch ==
    [][\A m \in network :
          (m.res = NoRes /\ (network' \ network) = {Answered(m,
                   Answer(mockCustomers, faker, today, m.req))}) =>
             /\ mockCustomers' = Answer(mockCustomers, faker, today, m.req).mockCustomers
             /\ \A c \in DOMAIN mockCustomers' :
                   LET named == {n \in Succeeded(CustomersUrl)' :
                                    n.req.body.customerId = Str(mockCustomers'[c].id)}
                   IN  named # {} =>
                          \E n \in named :
                              n.req.body.status = Str(mockCustomers'[c].status)
             /\ \A p \in Places(mockCustomers') :
                   LET named == {n \in Succeeded(OrdersUrl)' :
                                    p \in Addressed(mockCustomers', n.req)}
                   IN  named # {} =>
                          \E n \in named :
                              Asked(n.req.body) = ItemAt(mockCustomers', p).customSize]_vars

\* Two PATCHes of one customer's status, sent at once with different
\* statuses, and a PATCH of an item's measurements have all been answered
\* 200.
C26_Witness ==
    /\ \E m, n \in Succeeded(CustomersUrl) :
          /\ m.req.body.customerId = n.req.body.customerId
          /\ m.req.body.status # n.req.body.status
    /\ Succeeded(OrdersUrl) # {}

\* Two PATCHes of one item's measurements, sent at once with different
\* measurements, have both been answered 200.
C26_WitnessSizes ==
    \E m, n \in Succeeded(OrdersUrl) :
        /\ m.req.id = n.req.id
        /\ m.req.body.orderItemId = n.req.body.orderItemId
        /\ m.req.body.customSize # n.req.body.customSize

-----------------------------------------------------------------------------
(* CustomerTable.tsx: the table of customers.  One action per event        *)
(* handler, timer callback and continuation of an await, each followed by  *)
(* the effects React runs after the render its state changes cause.        *)

\* new URLSearchParams({ page, limit, sortBy, order, search })
ParamsOf(t) ==
    [page |-> Str(NumToString(t.page + 1)),
     limit |-> Str(NumToString(t.rowsPerPage)),
     sortBy |-> Str(t.sortBy),
     order |-> Str(t.sortOrder),
     search |-> Str(t.debouncedSearchTerm)]

\* abort() that aborts nothing.
AbortNothing(net, k) == net

\* abortControllerRef.current.abort(): the fetch called with the signal of
\* controller k, when it has not settled, rejects with an AbortError.
Abort(net, k) ==
    {IF m.id = k THEN [m EXCEPT !.aborted = TRUE] ELSE m : m \in net}

\* The table and the network with one message more.
Fetching(t, net, k) ==
    [customerTable |-> [t EXCEPT !.abortControllerRef = k,
                                 !.loading = TRUE,
                                 !.error = JSNull],
     network |-> net \cup {Message(k, "fetchCustomers",
                              [method |-> "GET", url |-> CustomersUrl,
                               query |-> ParamsOf(t)])}]

\* fetchCustomers up to its first await.
fetchCustomers(t, net) == Fetching(t, Abort(net, t.abortControllerRef), FreshId)

\* The dependencies of the two effects.
DebounceDeps(t) == <<t.searchTerm, t.page>>
FetchDeps(t) ==
    <<t.page, t.rowsPerPage, t.sortBy, t.sortOrder, t.debouncedSearchTerm>>

\* setTimeout(() => { ... }, 300): the callback closes over the searchTerm
\* and the page of the render that set it.
Timeout(t) == [armed |-> TRUE, searchTerm |-> t.searchTerm, page |-> t.page]

\* The timer after the effects of a render from `was` to t: the cleanups of
\* the effects whose dependencies changed run first (both clear the timeout),
\* then the debounce effect, if it is among them, sets a new one.
TimeoutAfter(was, t) ==
    IF DebounceDeps(t) # DebounceDeps(was) THEN Timeout(t)
    ELSE IF FetchDeps(t) # FetchDeps(was) THEN NoTimeout
    ELSE t.searchTimeoutRef

\* The effects after a render from `was` to t.
Effects(was, t, net) ==
    IF FetchDeps(t) # FetchDeps(was)
    THEN fetchCustomers([t EXCEPT !.searchTimeoutRef = TimeoutAfter(was, t)], net)
    ELSE [customerTable |-> [t EXCEPT !.searchTimeoutRef = TimeoutAfter(was, t)],
          network |-> net]

\* The state and the network after a handler has set the state to t.
Rendered(t, net) ==
    /\ customerTable' = Effects(customerTable, t, net).customerTable
    /\ network' = Effects(customerTable, t, net).network
    /\ UNCHANGED <<mockCustomers, faker, today, req, res, filteredCustomers,
                   ordersTable>>

Mounted == customerTable.abortControllerRef # NoController

\* A promise that has been rejected runs its continuation before the next
\* event is taken: an aborted fetch is waiting for that.
Rejected == {m \in network : m.aborted}

\* The table takes an event.
Idle == Mounted /\ Rejected = {}

\* The first render: both effects run.
Mount ==
    /\ ~Mounted
    /\ network = {}
    /\ customerTable' =
          fetchCustomers([customerTable EXCEPT
                             !.searchTimeoutRef = Timeout(customerTable)],
                         network).customerTable
    /\ network' =
          fetchCustomers([customerTable EXCEPT
                             !.searchTimeoutRef = Timeout(customerTable)],
                         network).network
    /\ UNCHANGED <<mockCustomers, faker, today, req, res, filteredCustomers,
                   ordersTable>>

\* The texts typed into the search field.
SearchTerms == {<<>>, <<"a">>}

\* handleSearchChange: setSearchTerm(event.target.value)
handleSearchChange(value) ==
    /\ Idle
    /\ value # customerTable.searchTerm
    /\ Rendered([customerTable EXCEPT !.searchTerm = value], network)

\* The pages TablePagination offers: the one before and the one after, within
\* count = totalItems.
OfferedPages(t) ==
    {p \in {t.page - 1, t.page + 1} :
        p >= 0 /\ p * t.rowsPerPage < t.totalItems.val}

\* onPageChange={(_, newPage) => setPage(newPage)}
onPageChange(newPage) ==
    /\ Idle
    /\ newPage \in OfferedPages(customerTable)
    /\ Rendered([customerTable EXCEPT !.page = newPage], network)

\* rowsPerPageOptions={[5, 10, 25]}: the options chosen in the model.
RowsPerPageOptions == {5, 10}

\* onRowsPerPageChange: setRowsPerPage(parseInt(e.target.value, 10)); setPage(0)
onRowsPerPageChange(value) ==
    /\ Idle
    /\ value # customerTable.rowsPerPage
    /\ Rendered([customerTable EXCEPT !.rowsPerPage = value, !.page = 0], network)

\* The column headers that sort: handleSort('name'), handleSort('orderCount'),
\* handleSort('revenue'); the model clicks two of them.
SortColumns == {"name", "revenue"}

\* handleSort
handleSort(property) ==
    /\ Idle
    /\ Rendered([customerTable EXCEPT
                    !.sortOrder = IF customerTable.sortBy = property
                                     /\ customerTable.sortOrder = Asc.val
                                  THEN Desc.val ELSE Asc.val,
                    !.sortBy = property,
                    !.page = 0],
                network)

\* The callback of the debounce effect, 300 ms after it was set:
\* setDebouncedSearchTerm(searchTerm); if (page !== 0) setPage(0)
SearchTimeout ==
    /\ Idle
    /\ customerTable.searchTimeoutRef.armed
    /\ Rendered([customerTable EXCEPT
                    !.searchTimeoutRef = NoTimeout,
                    !.debouncedSearchTerm = customerTable.searchTimeoutRef.searchTerm,
                    !.page = IF customerTable.searchTimeoutRef.page # 0
                             THEN 0 ELSE customerTable.page],
                network)

\* The messages of fetchCustomers.
Fetches == {m \in network : m.from = "fetchCustomers"}

\* fetchCustomers after its awaits, the response being ok:
\* setCustomers(data.customers); setTotalItems(data.pagination.totalItems);
\* finally setLoading(false)
FetchedCustomers(m) ==
    /\ m \in Fetches
    /\ ~m.aborted
    /\ m.res # NoRes
    /\ m.res.status = 200
    /\ Rendered([customerTable EXCEPT
                    !.customers = m.res.json.customers,
                    !.totalItems = m.res.json.pagination.totalItems,
                    !.loading = FALSE],
                network \ {m})

\* fetchCustomers when fetch rejects with an AbortError: the catch block
\* sets no error; finally setLoading(false)
FetchAborted(m) ==
    /\ m \in Fetches
    /\ m.aborted
    /\ Rendered([customerTable EXCEPT !.loading = FALSE], network \ {m})

\* fetchCustomers when fetch rejects for the network, or the response is
\* not ok: setError(...); finally setLoading(false)
FetchFailed(m) ==
    /\ m \in Fetches
    /\ ~m.aborted
    /\ Rejected = {}
    /\ m.res = NoRes \/ m.res.status # 200
    /\ Rendered([customerTable EXCEPT
                    !.error = Str("Failed to load customers. Please try again."),
                    !.loading = FALSE],
                network \ {m})

NextTable ==
    \/ Mount
    \/ \E value \in SearchTerms : handleSearchChange(value)
    \/ \E newPage \in 0..2 : onPageChange(newPage)
    \/ \E value \in RowsPerPageOptions : onRowsPerPageChange(value)
    \/ \E property \in SortColumns : handleSort(property)
    \/ SearchTimeout
    \/ \E m \in network : Handle(m)
    \/ \E m \in network : FetchedCustomers(m)
    \/ \E m \in network : FetchAborted(m)
    \/ \E m \in network : FetchFailed(m)

\* process.env.NODE_ENV === 'development': faker.seed(12345), the one seed
\* the pages are looked at with.
DevelopmentSeed == 1

InitDevelopment ==
    /\ Init
    /\ mockCustomers =
          generateMockCustomers([x |-> DevelopmentSeed, uuids |-> 0], today,
                                NumRandom).val

SpecTable == InitDevelopment /\ [][NextTable]_vars

-----------------------------------------------------------------------------
(* C27, C28, C30 *)

\* What the server answers to the parameters the table has now.
Latest(t) == handlerGET(mockCustomers, ParamsOf(t)).res.json

\* The fetches that have not been aborted.
InFlight(net) == {m \in net : m.from = "fetchCustomers" /\ ~m.aborted}

\* C27: a query issued while an earlier one is in flight aborts it: the
\* only fetch not aborted is the one of the controller the table holds, the
\* one issued last.  The continuation of an aborted fetch writes neither
\* customers nor totalItems and sets no error.  When no fetch is left and no
\* error is shown, customers and totalItems are the response to the
\* parameters the table has, those of the query issued last.
C27_Supersede ==
    [][/\ \A m \in InFlight(network') :
              m.id = customerTable'.abortControllerRef
       /\ \A m \in Rejected :
              m \notin network' =>
                 /\ customerTable'.customers = customerTable.customers
                 /\ customerTable'.totalItems = customerTable.totalItems
                 /\ customerTable'.error = customerTable.error
       /\ (Mounted' /\ Fetches' = {} /\ customerTable'.error = JSNull) =>
              /\ customerTable'.customers = Latest(customerTable').customers
              /\ customerTable'.totalItems =
                     Latest(customerTable').pagination.totalItems]_vars

\* A fetch has been aborted by the query that superseded it, which is in
\* flight, while the table shows the customers of an earlier response.
C27_Witness ==
    /\ Rejected # {}
    /\ InFlight(network) # {}
    /\ customerTable.customers # <<>>

\* The table shows the response to a search on its second page, issued after
\* other queries, with nothing in flight.
C27_Settled ==
    /\ Mounted
    /\ network = {}
    /\ customerTable.error = JSNull
    /\ customerTable.debouncedSearchTerm # <<>>
    /\ customerTable.page > 0
    /\ customerTable.customers # <<>>

\* C28: the page changes to the first page only with a change of the search
\* text, the sort or the rows per page.  In a step that changes none of
\* these, with no search text waiting for the debounce timer, the page stays
\* or moves to a page the pagination control offers: the timer does not move
\* the table from page p > 0 back to page 0.
C28_PageKept ==
    [][(/\ Mounted
        /\ customerTable'.searchTerm = customerTable.searchTerm
        /\ customerTable.debouncedSearchTerm = customerTable.searchTerm
        /\ customerTable'.rowsPerPage = customerTable.rowsPerPage
        /\ customerTable'.sortBy = customerTable.sortBy
        /\ customerTable'.sortOrder = customerTable.sortOrder
        /\ customerTable'.page # customerTable.page) =>
            customerTable'.page \in OfferedPages(customerTable)]_vars

\* C30: while a customers query that has not been aborted is in flight,
\* loading is true.
C30_LoadingWhileInFlight ==
    InFlight(network) # {} => customerTable.loading

-----------------------------------------------------------------------------
(* Saving from the tables: CustomerTable's status editor and OrdersTable's *)
(* measurement editor.                                                     *)

\* fetch rejects: the request or its response did not get through.
NetworkError == [status |-> 0, name |-> "TypeError"]

\* response.ok
Ok(response) == response.status = 200

\* The most saves of the customer table on the network at once.
MaxSaves == 1

\* The messages of a caller.
From(from) == {m \in network : m.from = from}

\* The network loses a save's request, or the response to it.
Fail(m) ==
    /\ m \in From("CustomerTable.handleSave") \cup From("OrdersTable.handleSave")
    /\ m.res # NetworkError
    /\ network' = (network \ {m}) \cup {[m EXCEPT !.res = NetworkError]}
    /\ UNCHANGED <<mockCustomers, faker, today, req, res, filteredCustomers,
                   customerTable, ordersTable>>

\* The row of the table that is edited and expanded in the model: the first.
EditedRows(t) == {i \in DOMAIN t.customers : i = 1}

\* The rows are rendered: {loading ? <CircularProgress/> : tableRows}
RowsShown == Idle /\ ~customerTable.loading

\* handleEdit(customer.id, customer.status)
handleEdit(customerId, currentStatus) ==
    /\ RowsShown
    /\ customerTable.editingCustomer = JSNull
    /\ Rendered([customerTable EXCEPT !.editingCustomer = Str(customerId),
                                      !.editedStatus = currentStatus],
                network)

\* <Select onChange={(e) => setEditedStatus(e.target.value)}>
setEditedStatus(value) ==
    /\ RowsShown
    /\ customerTable.editingCustomer # JSNull
    /\ value # customerTable.editedStatus
    /\ Rendered([customerTable EXCEPT !.editedStatus = value], network)

\* <IconButton onClick={() => setEditingCustomer(null)}>
setEditingCustomer ==
    /\ RowsShown
    /\ customerTable.editingCustomer # JSNull
    /\ Rendered([customerTable EXCEPT !.editingCustomer = JSNull], network)

\* handleSave(customer.id) up to its await: the PATCH is sent with the
\* editedStatus of the render.
handleSave(customerId) ==
    /\ RowsShown
    /\ customerTable.editingCustomer = Str(customerId)
    /\ Cardinality(From("CustomerTable.handleSave")) < MaxSaves
    /\ network' = network \cup
          {Message(FreshId, "CustomerTable.handleSave",
                   [method |-> "PATCH", url |-> CustomersUrl,
                    body |-> [customerId |-> Str(customerId),
                              status |-> Str(customerTable.editedStatus)]])}
    /\ UNCHANGED <<mockCustomers, faker, today, req, res, filteredCustomers,
                   customerTable, ordersTable>>

\* prevCustomers.map(c => c.id === customerId ? { ...c, status: editedStatus } : c)
WithStatus(customers, customerId, status) ==
    [i \in DOMAIN customers |->
        IF Str(customers[i].id) = customerId
        THEN [customers[i] EXCEPT !.status = status.val]
        ELSE customers[i]]

\* What handleSave leaves of the list when it sets it before the response
\* is looked at.
CustomersAfterSaveAnyway(customers, m) ==
    WithStatus(customers, m.req.body.customerId, m.req.body.status)

\* What handleSave leaves of the list: the edited status after an ok
\* response, the list as it was after a throw.
CustomersAfterSave(customers, m) ==
    IF Ok(m.res)
    THEN WithStatus(customers, m.req.body.customerId, m.req.body.status)
    ELSE customers

\* handleSave after its await: the fetch has been answered or rejected.
\* catch: setError(...); finally: setEditingCustomer(null)
CustomerSaved(m) ==
    /\ m \in From("CustomerTable.handleSave")
    /\ m.res # NoRes
    /\ Rendered([customerTable EXCEPT
                    !.customers = CustomersAfterSave(customerTable.customers, m),
                    !.error = IF Ok(m.res) THEN customerTable.error
                              ELSE Str("Failed to update customer status. Please try again."),
                    !.editingCustomer = JSNull],
                network \ {m})

\* OrdersTable before its effect: the values of its useState calls.
OrdersTableState(customerId) ==
    [customerId |-> Str(customerId),
     orders |-> <<>>,
     editingItem |-> JSNull,
     loading |-> TRUE,
     error |-> JSNull,
     saving |-> FALSE]

\* handleCustomerSelect through handleRowClick, no row being expanded: the
\* row expands, OrdersTable mounts and its effect calls fetchOrders, which
\* runs up to its await.
handleRowClick(customerId) ==
    /\ RowsShown
    /\ ordersTable = NotMounted
    /\ ordersTable' = OrdersTableState(customerId)
    /\ network' = network \cup
          {Message(FreshId, "OrdersTable.fetchOrders",
                   [method |-> "GET", url |-> OrdersUrl, id |-> customerId])}
    /\ UNCHANGED <<mockCustomers, faker, today, req, res, filteredCustomers,
                   customerTable>>

\* handleCustomerSelect through handleRowClick on the expanded row: the row
\* collapses and OrdersTable unmounts.
Collapse ==
    /\ RowsShown
    /\ ordersTable # NotMounted
    /\ From("OrdersTable.fetchOrders") \cup From("OrdersTable.handleSave") = {}
    /\ ordersTable' = NotMounted
    /\ UNCHANGED <<mockCustomers, faker, today, req, res, filteredCustomers,
                   network, customerTable>>

\* fetchOrders after its awaits: setOrders(data.orders || []), or
\* setError(...) when the response is not ok; finally setLoading(false)
OrdersFetched(m) ==
    /\ m \in From("OrdersTable.fetchOrders")
    /\ m.res # NoRes
    /\ ordersTable' =
          [ordersTable EXCEPT
              !.orders = IF Ok(m.res) THEN m.res.json.orders ELSE ordersTable.orders,
              !.error = IF Ok(m.res) THEN JSNull
                        ELSE Str("Failed to load orders"),
              !.loading = FALSE]
    /\ network' = network \ {m}
    /\ UNCHANGED <<mockCustomers, faker, today, req, res, filteredCustomers,
                   customerTable>>

\* The orders are rendered: neither the progress indicator nor the alert
\* is returned instead.
OrdersShown ==
    /\ ordersTable # NotMounted
    /\ ~ordersTable.loading
    /\ ordersTable.error = JSNull

\* The items of the orders shown.
ItemsShown ==
    IF ordersTable = NotMounted THEN {}
    ELSE {<<o, i>> \in (DOMAIN ordersTable.orders) \X (1..MaxItems) :
             i \in DOMAIN ordersTable.orders[o].items}

\* The item that is edited in the model: the first of the first order.
EditedItems == {p \in ItemsShown : p = <<1, 1>>}

\* handleEdit(item) of OrdersTable
OrdersTable_handleEdit(item) ==
    /\ OrdersShown
    /\ ordersTable.editingItem = JSNull
    /\ ordersTable' =
          [ordersTable EXCEPT
              !.editingItem = [orderItemId |-> item.orderItemId,
                               chest |-> item.customSize.chest,
                               waist |-> item.customSize.waist,
                               hips |-> item.customSize.hips]]
    /\ UNCHANGED <<mockCustomers, faker, today, req, res, filteredCustomers,
                   network, customerTable>>

\* parseFloat of a numeral without a fraction, or of a text that is none.
ParseFloat(value) == ParseInt(value)

\* parseFloat(value) || 0
NumValue(value) ==
    IF Truthy(ParseFloat(value)) THEN ParseFloat(value).val ELSE 0

\* The texts typed into a measurement field.
FieldValues == {<<"4","1">>, <<>>}

\* handleInputChange(field, value) of OrdersTable
OrdersTable_handleInputChange(field, value) ==
    /\ OrdersShown
    /\ ordersTable.editingItem # JSNull
    /\ ordersTable.editingItem[field] # NumValue(value)
    /\ ordersTable' =
          [ordersTable EXCEPT !.editingItem[field] = NumValue(value)]
    /\ UNCHANGED <<mockCustomers, faker, today, req, res, filteredCustomers,
                   network, customerTable>>

\* handleCancel of OrdersTable; the button is disabled while saving.
OrdersTable_handleCancel ==
    /\ OrdersShown
    /\ ordersTable.editingItem # JSNull
    /\ ~ordersTable.saving
    /\ ordersTable' = [ordersTable EXCEPT !.editingItem = JSNull]
    /\ UNCHANGED <<mockCustomers, faker, today, req, res, filteredCustomers,
                   network, customerTable>>

\* handleSave(order.orderId, item.orderItemId) of OrdersTable up to its
\* await; the button is on the row being edited and disabled while saving.
OrdersTable_handleSave(orderId, orderItemId) ==
    /\ OrdersShown
    /\ ordersTable.editingItem # JSNull
    /\ ordersTable.editingItem.orderItemId = orderItemId
    /\ ~ordersTable.saving
    /\ ordersTable' = [ordersTable EXCEPT !.saving = TRUE, !.error = JSNull]
    /\ network' = network \cup
          {Message(FreshId, "OrdersTable.handleSave",
                   [method |-> "PATCH", url |-> OrdersUrl,
                    id |-> ordersTable.customerId.val,
                    body |-> [orderId |-> Str(orderId),
                              orderItemId |-> Str(orderItemId),
                              customSize |->
                                 Object(Num(ordersTable.editingItem.chest),
                                        Num(ordersTable.editingItem.waist),
                                        Num(ordersTable.editingItem.hips))]])}
    /\ UNCHANGED <<mockCustomers, faker, today, req, res, filteredCustomers,
                   customerTable>>

\* prevOrders.map(order => order.orderId === orderId ? { ...order, items:
\* order.items.map(item => item.orderItemId === orderItemId
\*                          ? { ...item, customSize } : item) } : order)
WithSize(orders, body) ==
    [o \in DOMAIN orders |->
        IF Str(orders[o].orderId) = body.orderId
        THEN [orders[o] EXCEPT !.items =
                 [i \in DOMAIN orders[o].items |->
                     IF Str(orders[o].items[i].orderItemId) = body.orderItemId
                     THEN [orders[o].items[i] EXCEPT
                              !.customSize = StoredSize(body.customSize)]
                     ELSE orders[o].items[i]]]
        ELSE orders[o]]

\* What handleSave leaves of the orders when it sets them before the
\* response is looked at.
OrdersAfterSaveAnyway(orders, m) == WithSize(orders, m.req.body)

\* What handleSave leaves of the orders: the edited measurements after an ok
\* response, the orders as they were after a throw.
OrdersAfterSave(orders, m) ==
    IF Ok(m.res) THEN WithSize(orders, m.req.body) ELSE orders

\* handleSave of OrdersTable after its awaits.  catch: setError(...);
\* finally: setSaving(false); setEditingItem(null)
OrderItemSaved(m) ==
    /\ m \in From("OrdersTable.handleSave")
    /\ m.res # NoRes
    /\ ordersTable' =
          [ordersTable EXCEPT
              !.orders = OrdersAfterSave(ordersTable.orders, m),
              !.error = IF Ok(m.res) THEN ordersTable.error
                        ELSE Str("Failed to update order item"),
              !.saving = FALSE,
              !.editingItem = JSNull]
    /\ network' = network \ {m}
    /\ UNCHANGED <<mockCustomers, faker, today, req, res, filteredCustomers,
                   customerTable>>

NextSave ==
    \/ Mount
    \/ \E m \in network : Handle(m)
    \/ \E m \in network : FetchedCustomers(m)
    \/ \E m \in network : Fail(m)
    \/ \E i \in EditedRows(customerTable) :
          handleEdit(customerTable.customers[i].id, customerTable.customers[i].status)
    \/ \E value \in {Active.val, Churned.val} : setEditedStatus(value)
    \/ setEditingCustomer
    \/ \E i \in EditedRows(customerTable) : handleSave(customerTable.customers[i].id)
    \/ \E m \in network : CustomerSaved(m)
    \/ \E i \in EditedRows(customerTable) : handleRowClick(customerTable.customers[i].id)
    \/ Collapse
    \/ \E m \in network : OrdersFetched(m)
    \/ \E p \in EditedItems :
          OrdersTable_handleEdit(ordersTable.orders[p[1]].items[p[2]])
    \/ \E value \in FieldValues : OrdersTable_handleInputChange("chest", value)
    \/ OrdersTable_handleCancel
    \/ \E p \in EditedItems :
          OrdersTable_handleSave(ordersTable.orders[p[1]].orderId,
                                 ordersTable.orders[p[1]].items[p[2]].orderItemId)
    \/ \E m \in network : OrderItemSaved(m)

SpecSave == InitDevelopment /\ [][NextSave]_vars

-----------------------------------------------------------------------------
(* C29 *)

\* The call that sent m has returned in this step.
Settled(m) == m.id \notin {n.id : n \in network'}

=============================================================================
